---- MODULE Spec2Model ----
(***************************************************************************)
(* Scan orchestration of the OSINT platform backend:                       *)
(*   - credit reservation          app/api/deps.py                         *)
(*   - scan submission             app/routers/scan.py                     *)
(*   - scan history records        app/services/history_service.py         *)
(*   - the Celery scan task        app/tasks/scan_tasks.py                 *)
(*   - the live-updates gateway    app/core/socket_manager.py,             *)
(*                                 app/routers/websocket.py                *)
(*   - history by id, listing,     app/routers/history.py                  *)
(*     statistics                                                          *)
(*   - task status and cancel      app/routers/scan.py                     *)
(* The relational database is modelled with PostgreSQL semantics: a        *)
(* SELECT ... FOR UPDATE holds the row lock until commit or rollback.      *)
(* Celery is modelled by its documented behaviour: delay() sends a message *)
(* with retries = 0, Task.retry(exc=e) re-sends the message with           *)
(* retries + 1 and raises Retry, or re-raises e once retries + 1 exceeds   *)
(* max_retries; a returned value runs on_success, a raised exception runs  *)
(* on_failure.                                                             *)
(***************************************************************************)
EXTENDS Bags, FiniteSets, Integers, Sequences, TLC

VARIABLES
    users,          \* table users: id -> [credits_balance, is_active]
    rowLock,        \* row lock of each users row: the request holding it, or NoReq
    req,            \* per HTTP request: position in POST /scan and its locals
    broker,         \* bag of task messages waiting in the Celery queue
    scan_history,   \* table scan_history, keyed by task_id
    clock,          \* datetime.utcnow() as a logical clock of record writes
    celery_state,   \* Celery result backend: task_id -> state
    published,      \* per task: messages accepted by the Redis channel, in order
    exec,           \* per worker: position in perform_osint_scan and its locals
    unacked,        \* bag of messages delivered and not yet acknowledged
    attempts,       \* per task and retries count: the outcomes collect had
    redeliveries,   \* number of broker redeliveries so far
    redis_up,       \* whether the Redis pub/sub server accepts publishes
    task_args,      \* result backend (result_extended): task_id -> collector_type
    opening_balance, \* credits_balance of each account when the run began
    active_connections, \* ConnectionManager: task_id -> set of websockets
    listener_tasks, \* ConnectionManager: task_id -> its listener (asyncio.Task)
    listeners,      \* per asyncio.Task running _redis_listener: position, locals
    ws,             \* per WebSocket: position of its endpoint, messages received
    audience,       \* history: per task and message, the viewers registered
                    \* when the message was published
    hreq,           \* per history request: position in the handler, its answer
    lreq,           \* the list / statistics request: position, inputs, answer
    creq,           \* per status / cancel request: position, its answer
    revoked         \* revoke commands: sent by the API, known to the workers

vars == << users, rowLock, req, broker, scan_history, clock, celery_state,
           published, exec, unacked, attempts, redeliveries, redis_up,
           task_args, opening_balance, active_connections, listener_tasks,
           listeners, ws, audience, hreq, lreq, creq, revoked >>

\* the state of the gateway, of the history handlers, of task control
gatewayVars == << active_connections, listener_tasks, listeners, ws >>
historyVars == << hreq, lreq >>
controlVars == << creq, revoked >>

(***************************************************************************)
(* Bounds of the model.                                                    *)
(***************************************************************************)
MaxReqs == 3            \* concurrent POST /scan requests (SpecLedger)
MaxTasks == 1           \* tasks of a run with workers (SpecExec)
MaxBalance == 11        \* largest initial balance of account 1
MaxWorkers == 2         \* worker processes
MaxRedeliver == 1       \* broker redeliveries of an unacknowledged message
MaxViewers == 2         \* WebSocket connections of a run (SpecGateway)
MaxListeners == 2       \* listener tasks the gateway creates in a run
MaxEvents == 2          \* messages published on a channel (SpecGateway)
MaxHistoryReqs == 2     \* history requests of a run (SpecHistory)
MaxControlReqs == 1     \* status / cancel requests of a run (SpecControl)
MaxRows == 3            \* rows of scan_history when it is listed (SpecListing)

(***************************************************************************)
(* Program constants.                                                      *)
(***************************************************************************)
ScanCost == 5           \* Depends(check_and_deduct_credits(cost=5))
CreditsCharged == 5     \* create_scan_log(..., credits_charged=5)
DefaultCredits == 10    \* User.credits_balance default
max_retries == 3        \* @celery_app.task(max_retries=3)
MaxLimit == 100         \* limit: int = Query(10, ge=1, le=100)

NoReq == 0
NoInt == -1
NoRecord == [status |-> "NONE"]
Null == "null"

Workers == 1 .. MaxWorkers
\* ids of the tasks of this run: one per request, then the directly sent ones
TaskIds == DOMAIN celery_state
DirectIds == TaskIds \ DOMAIN req

\* X-User-Id header values: absent, malformed, two accounts, an unknown id
XUserIdHeaders == {"", "abc", "1", "2", "7"}

\* int(x_user_id): the integer, or NoInt when int() raises ValueError
ParseInt(h) ==
    CASE h = "1" -> 1
      [] h = "2" -> 2
      [] h = "7" -> 7
      [] OTHER -> NoInt

COLLECTOR_MAP ==
    {"dns", "username", "metadata", "identity", "social", "crtsh", "whois",
     "shodan", "virustotal", "haveibeenpwned", "securitytrails"}

CollectorType == COLLECTOR_MAP

\* the collector types the modelled requests ask for
RequestTypes == {"dns"}
\* the collector_type arguments another producer puts on the queue
DirectTypes == {"doesnotexist", "DNS"}

\* str.lower() on the names above
Lower(s) == IF s = "DNS" THEN "dns" ELSE s

NewReq ==
    [pc |-> "idle", x_user_id |-> "", user_id |-> NoInt, observed |-> NoInt,
     status_code |-> 0, required |-> NoInt, available |-> NoInt,
     needed |-> NoInt, balance_after |-> NoInt, credits_remaining |-> NoInt,
     type |-> Null]

Reject(r, code) ==
    req' = [req EXCEPT ![r].pc = "rejected", ![r].status_code = code]

(***************************************************************************)
(* deps.py: get_current_user_id                                            *)
(***************************************************************************)
GetCurrentUserId(r) ==
    /\ req[r].pc = "idle"
    /\ \E h \in XUserIdHeaders :
         IF h = ""
         THEN req' = [req EXCEPT ![r].pc = "rejected", ![r].status_code = 401,
                                 ![r].x_user_id = h]
         ELSE IF ParseInt(h) = NoInt
         THEN req' = [req EXCEPT ![r].pc = "rejected", ![r].status_code = 401,
                                 ![r].x_user_id = h]
         ELSE req' = [req EXCEPT ![r].pc = "get_current_user",
                                 ![r].x_user_id = h,
                                 ![r].user_id = ParseInt(h)]
    /\ UNCHANGED << users, rowLock, broker, scan_history, clock, celery_state,
                    published, exec, unacked, attempts, redeliveries,
                    redis_up, task_args,
                    opening_balance >>

(***************************************************************************)
(* deps.py: get_current_user                                               *)
(***************************************************************************)
GetCurrentUser(r) ==
    /\ req[r].pc = "get_current_user"
    /\ IF req[r].user_id \notin DOMAIN users
       THEN Reject(r, 401)
       ELSE IF ~users[req[r].user_id].is_active
       THEN Reject(r, 403)
       ELSE req' = [req EXCEPT ![r].pc = "dependency"]
    /\ UNCHANGED << users, rowLock, broker, scan_history, clock, celery_state,
                    published, exec, unacked, attempts, redeliveries,
                    redis_up, task_args,
                    opening_balance >>

(***************************************************************************)
(* deps.py: check_and_deduct_credits.dependency                            *)
(***************************************************************************)
\* a plain SELECT: no row lock is waited for
RowAvailableUnlocked(r, uid) == TRUE

\* with_for_update(): the SELECT waits until no other transaction holds the row
RowAvailable(r, uid) == rowLock[uid] = NoReq

\* the locked SELECT: takes the row lock and reads the committed balance
LockUserRow(r) ==
    /\ req[r].pc = "dependency"
    /\ LET uid == req[r].user_id IN
         IF uid \notin DOMAIN users
         THEN /\ Reject(r, 401)
              /\ UNCHANGED rowLock
         ELSE /\ RowAvailable(r, uid)
              /\ rowLock' = [rowLock EXCEPT ![uid] = r]
              /\ req' = [req EXCEPT ![r].pc = "locked",
                                    ![r].observed = users[uid].credits_balance]
    /\ UNCHANGED << users, broker, scan_history, clock, celery_state,
                    published, exec, unacked, attempts, redeliveries,
                    redis_up, task_args,
                    opening_balance >>

\* the check refusing only an empty balance
InsufficientWhenEmpty(balance, cost) == balance <= 0

\* the check refusing a balance equal to the cost
InsufficientOrEqual(balance, cost) == balance <= cost

\* if user.credits_balance < cost: raise HTTPException(402)
Insufficient(balance, cost) == balance < cost

\* the decrement flushed before the check and never rolled back
CommittedBalanceNoRollback(current, b, cost) == b - cost

\* the balance of the row once the transaction ended: rollback leaves the
\* row as it is, commit stores the decremented balance
CommittedBalance(current, b, cost) ==
    IF Insufficient(b, cost) THEN current ELSE b - cost

\* a rollback that keeps the row lock of a refused reservation
ReleaseRowOnGrant(r, uid) ==
    rowLock' = [rowLock EXCEPT ![uid] =
                   IF @ = r /\ ~Insufficient(req[r].observed, ScanCost)
                   THEN NoReq ELSE @]

\* commit or rollback ends the transaction and releases the row lock
ReleaseRow(r, uid) ==
    rowLock' = [rowLock EXCEPT ![uid] = IF @ = r THEN NoReq ELSE @]

\* the check, then either 402 + rollback or the decrement + commit
CheckAndDeduct(r) ==
    /\ req[r].pc = "locked"
    /\ LET uid == req[r].user_id
           b   == req[r].observed IN
         /\ IF Insufficient(b, ScanCost)
            THEN req' = [req EXCEPT ![r].pc = "rejected",
                                    ![r].status_code = 402,
                                    ![r].required = ScanCost,
                                    ![r].available = b,
                                    ![r].needed = ScanCost - b]
            ELSE req' = [req EXCEPT ![r].pc = "refresh"]
         /\ users' = [users EXCEPT ![uid].credits_balance =
                          CommittedBalance(@, b, ScanCost)]
         /\ ReleaseRow(r, uid)
    /\ UNCHANGED << broker, scan_history, clock, celery_state, published,
                    exec, unacked, attempts, redeliveries, redis_up, task_args,
                    opening_balance >>

\* db.commit() raises: except Exception -> db.rollback(), HTTPException(500)
CommitFails(r) ==
    /\ req[r].pc = "locked"
    /\ ~Insufficient(req[r].observed, ScanCost)
    /\ req' = [req EXCEPT ![r].pc = "rejected", ![r].status_code = 500]
    /\ ReleaseRow(r, req[r].user_id)
    /\ UNCHANGED << users, broker, scan_history, clock, celery_state,
                    published, exec, unacked, attempts, redeliveries,
                    redis_up, task_args, opening_balance >>

\* db.refresh(user) after the commit, then return user
RefreshUser(r) ==
    /\ req[r].pc = "refresh"
    /\ req' = [req EXCEPT ![r].pc = "granted",
                          ![r].balance_after =
                              users[req[r].user_id].credits_balance]
    /\ UNCHANGED << users, rowLock, broker, scan_history, clock, celery_state,
                    published, exec, unacked, attempts, redeliveries,
                    redis_up, task_args,
                    opening_balance >>

(***************************************************************************)
(* history_service.py                                                      *)
(***************************************************************************)
NoResult == [kind |-> Null, success |-> FALSE, error |-> Null]

\* what the request carries into its row: scan_request.target, the
\* client's address and the user-agent header
Target == "example.com"
ClientIp == "127.0.0.1"
UserAgent == "curl"

\* id is uuid4(): one fresh value per row, here the row's task
create_scan_log(uid, scan_type, task_id, now) ==
    [id |-> task_id, target |-> Target, client_ip |-> ClientIp,
     user_agent |-> UserAgent,
     status |-> "PENDING", user_id |-> uid, scan_type |-> scan_type,
     task_id |-> task_id, credits_charged |-> CreditsCharged,
     result_snapshot |-> NoResult, error_message |-> Null,
     performed_at |-> now, completed_at |-> NoInt]

\* an update that stamps the creation time as well
UpdatedRowRestamped(row, status, result_snapshot, error_message, now) ==
    [row EXCEPT !.status = status,
                !.completed_at = now,
                !.performed_at = now,
                !.result_snapshot =
                    IF result_snapshot # NoResult THEN result_snapshot ELSE @,
                !.error_message =
                    IF error_message # Null THEN error_message ELSE @]

\* the row after update_scan_log's assignments
UpdatedRow(row, status, result_snapshot, error_message, now) ==
    [row EXCEPT !.status = status,
                !.completed_at = now,
                !.result_snapshot =
                    IF result_snapshot # NoResult THEN result_snapshot ELSE @,
                !.error_message =
                    IF error_message # Null THEN error_message ELSE @]

\* update_scan_log: no row with this task_id -> return None, nothing written
update_scan_log(task_id, status, result_snapshot, error_message) ==
    IF task_id \notin DOMAIN scan_history \/ scan_history[task_id] = NoRecord
    THEN UNCHANGED << scan_history, clock >>
    ELSE /\ scan_history' =
               [scan_history EXCEPT ![task_id] =
                   UpdatedRow(@, status, result_snapshot, error_message, clock)]
         /\ clock' = clock + 1

(***************************************************************************)
(* routers/scan.py: initiate_scan                                          *)
(***************************************************************************)
Message(task_id, collector_type, retries) ==
    [task_id |-> task_id, collector_type |-> collector_type,
     retries |-> retries]

\* collector type check, then perform_osint_scan.delay(target, collector_type)
Delay(r) ==
    /\ req[r].pc = "granted"
    /\ \E ty \in RequestTypes :
         IF ty \notin COLLECTOR_MAP
         THEN /\ req' = [req EXCEPT ![r].pc = "failed", ![r].status_code = 400,
                                    ![r].type = ty]
              /\ UNCHANGED broker
              /\ UNCHANGED << celery_state, task_args >>
         ELSE /\ broker' = broker (+) SetToBag({Message(r, ty, 0)})
              /\ celery_state' = [celery_state EXCEPT ![r] = "PENDING"]
              /\ task_args' = [task_args EXCEPT ![r] = ty]
              /\ req' = [req EXCEPT ![r].pc = "create_scan_log", ![r].type = ty]
    /\ UNCHANGED << users, rowLock, scan_history, clock, published, exec,
                    unacked, attempts, redeliveries, redis_up,
                    opening_balance >>

\* create_scan_log(..., task_id=task.id, credits_charged=5)
CreateScanLog(r) ==
    /\ req[r].pc = "create_scan_log"
    /\ scan_history' = [scan_history EXCEPT ![r] =
           create_scan_log(req[r].user_id, req[r].type, r, clock)]
    /\ clock' = clock + 1
    /\ req' = [req EXCEPT ![r].pc = "respond"]
    /\ UNCHANGED << users, rowLock, broker, celery_state, published, exec,
                    unacked, attempts, redeliveries, redis_up, task_args,
                    opening_balance >>

\* perform_osint_scan.delay raises (the broker cannot be reached): except
\* Exception -> HTTPException(500); the reservation stays committed
DelayFails(r) ==
    /\ req[r].pc = "granted"
    /\ req' = [req EXCEPT ![r].pc = "failed", ![r].status_code = 500]
    /\ UNCHANGED << users, rowLock, broker, scan_history, clock, celery_state,
                    published, exec, unacked, attempts, redeliveries,
                    redis_up, task_args, opening_balance >>

\* db.commit() in create_scan_log raises: except Exception ->
\* HTTPException(500); the task stays enqueued, the reservation committed
CreateScanLogFails(r) ==
    /\ req[r].pc = "create_scan_log"
    /\ req' = [req EXCEPT ![r].pc = "failed", ![r].status_code = 500]
    /\ UNCHANGED << users, rowLock, broker, scan_history, clock, celery_state,
                    published, exec, unacked, attempts, redeliveries,
                    redis_up, task_args, opening_balance >>

\* ScanResponse(..., credits_remaining=user.credits_balance, cost=5): the
\* commit in create_scan_log expired user, so the attribute is read again
Respond(r) ==
    /\ req[r].pc = "respond"
    /\ req' = [req EXCEPT ![r].pc = "returned", ![r].status_code = 200,
                          ![r].credits_remaining =
                              users[req[r].user_id].credits_balance]
    /\ UNCHANGED << users, rowLock, broker, scan_history, clock, celery_state,
                    published, exec, unacked, attempts, redeliveries,
                    redis_up, task_args,
                    opening_balance >>

(***************************************************************************)
(* another producer: perform_osint_scan.delay(target, collector_type) sent *)
(* without POST /scan, so without a scan_history row                       *)
(***************************************************************************)
DirectDelay(t) ==
    /\ t \in DirectIds
    /\ celery_state[t] = "NONE"
    /\ \E ty \in DirectTypes :
         /\ broker' = broker (+) SetToBag({Message(t, ty, 0)})
         /\ task_args' = [task_args EXCEPT ![t] = ty]
    /\ celery_state' = [celery_state EXCEPT ![t] = "PENDING"]
    /\ UNCHANGED << users, rowLock, req, scan_history, clock, published, exec,
                    unacked, attempts, redeliveries, redis_up,
                    opening_balance >>

(***************************************************************************)
(* tasks/scan_tasks.py                                                     *)
(***************************************************************************)
Event(type, status, error, retry_count, progress) ==
    [type |-> type, status |-> status, error |-> error,
     retry_count |-> retry_count, progress |-> progress]

\* publish_to_redis: r.publish, any exception logged and swallowed
publish_to_redis(channel, task_id, message) ==
    IF redis_up
    THEN [channel EXCEPT ![task_id] = Append(@, message)]
    ELSE channel

\* str(e) of the exceptions of the model
ErrNotFound(collector_type) ==
    IF collector_type = "doesnotexist"
    THEN "Collector type 'doesnotexist' not found"
    ELSE "Collector type not found"
ErrCollectValue == "ValueError from collect"
ErrCollect == "Exception from collect"
ErrExhausted == "Task failed after 3 retries: Exception from collect"
ErrMaxRetries == "Max retries exceeded: Exception from collect"

result_dict(success) == [kind |-> "result_dict", success |-> success, error |-> Null]
error_result(error) == [kind |-> "error_result", success |-> FALSE, error |-> error]

IdleWorker == [pc |-> "idle", msg |-> Message(0, Null, 0), retval |-> NoResult,
               exc |-> Null]

\* the worker takes a message; with task_acks_late it stays unacknowledged;
\* the message of a task the workers know as revoked is not executed
Deliver(w) ==
    /\ exec[w].pc = "idle"
    /\ \E m \in BagToSet(broker) :
         /\ m.task_id \notin revoked.known
         /\ broker' = broker (-) SetToBag({m})
         /\ unacked' = unacked (+) SetToBag({m})
         /\ exec' = [exec EXCEPT ![w] = [IdleWorker EXCEPT !.pc = "start", !.msg = m]]
    /\ UNCHANGED << users, rowLock, req, scan_history, clock, celery_state,
                    published, attempts, redeliveries, redis_up, task_args,
                    opening_balance >>

\* the broker hands an unacknowledged message out again (visibility timeout)
Redeliver ==
    /\ redeliveries < MaxRedeliver
    /\ \E m \in BagToSet(unacked) :
         broker' = broker (+) SetToBag({m})
    /\ redeliveries' = redeliveries + 1
    /\ UNCHANGED << users, rowLock, req, scan_history, clock, celery_state,
                    published, exec, unacked, attempts, redis_up, task_args,
                    opening_balance >>

\* acknowledgement once the task function and its handlers are through
Ack(w) ==
    /\ unacked' = unacked (-) SetToBag({exec[w].msg})
    /\ exec' = [exec EXCEPT ![w] = IdleWorker]

\* perform_osint_scan up to the try: task_started, update_state, first progress
StartScan(w) ==
    /\ exec[w].pc = "start"
    /\ LET t == exec[w].msg.task_id
           p1 == publish_to_redis(published, t,
                     Event("task_started", "STARTED", Null, NoInt, NoInt))
       IN /\ published' = publish_to_redis(p1, t,
                     Event("task_progress", "PROCESSING", Null, NoInt, 10))
          /\ celery_state' = [celery_state EXCEPT ![t] = "PROCESSING"]
    /\ exec' = [exec EXCEPT ![w].pc = "resolve"]
    /\ UNCHANGED << users, rowLock, req, broker, scan_history, clock, unacked,
                    attempts, redeliveries, redis_up, task_args,
                    opening_balance >>

\* COLLECTOR_MAP.get(collector_type.lower())
Registered(collector_type) == Lower(collector_type) \in COLLECTOR_MAP

\* the lookup: unknown -> task_error, ValueError, caught: task_error again and
\* error_result returned; known -> progress 30 and 50, collector instantiated
ResolveCollector(w) ==
    /\ exec[w].pc = "resolve"
    /\ LET t == exec[w].msg.task_id
           ty == exec[w].msg.collector_type
       IN IF ~Registered(ty)
          THEN LET e == ErrNotFound(ty)
                   p1 == publish_to_redis(published, t,
                             Event("task_error", "FAILURE", e, NoInt, NoInt))
               IN /\ published' = publish_to_redis(p1, t,
                             Event("task_error", "FAILURE", e, NoInt, NoInt))
                  /\ exec' = [exec EXCEPT ![w].pc = "on_success",
                                          ![w].retval = error_result(e)]
                  /\ celery_state' = [celery_state EXCEPT ![t] = "SUCCESS"]
          ELSE LET p1 == publish_to_redis(published, t,
                             Event("task_progress", "PROCESSING", Null, NoInt, 30))
               IN /\ published' = publish_to_redis(p1, t,
                             Event("task_progress", "PROCESSING", Null, NoInt, 50))
                  /\ exec' = [exec EXCEPT ![w].pc = "collect"]
                  /\ celery_state' = [celery_state EXCEPT ![t] = "PROCESSING"]
    /\ UNCHANGED << users, rowLock, req, broker, scan_history, clock, unacked,
                    attempts, redeliveries, redis_up, task_args,
                    opening_balance >>

\* what loop.run_until_complete(collector.collect(target)) can do: return a
\* result with success True or False, raise ValueError, raise another exception
CollectOutcomes == {"ok", "ok_failed", "ValueError", "Exception"}

\* a ceiling counting attempts instead of retries
CanRetryStrict(retries) == retries + 1 < max_retries

\* no retry at all: the exception fails the task at once
CanRetryNever(retries) == FALSE

\* Task.retry: may the task be sent again?  retries + 1 > max_retries -> no
CanRetry(retries) == retries + 1 <= max_retries

\* the exception Task.retry(exc=e) raises when the ceiling is reached: e itself
RetryRaises(e) == e

\* collector.collect returned: update_state, progress 90, return result_dict
CollectReturns(w, success) ==
    LET t == exec[w].msg.task_id IN
    /\ published' = publish_to_redis(published, t,
                        Event("task_progress", "PROCESSING", Null, NoInt, 90))
    /\ exec' = [exec EXCEPT ![w].pc = "on_success",
                            ![w].retval = result_dict(success)]
    /\ celery_state' = [celery_state EXCEPT ![t] = "SUCCESS"]
    /\ UNCHANGED << broker, unacked >>

\* except ValueError: task_error published, error_result returned
CollectValueError(w) ==
    LET t == exec[w].msg.task_id IN
    /\ published' = publish_to_redis(published, t,
                        Event("task_error", "FAILURE", ErrCollectValue, NoInt, NoInt))
    /\ exec' = [exec EXCEPT ![w].pc = "on_success",
                            ![w].retval = error_result(ErrCollectValue)]
    /\ celery_state' = [celery_state EXCEPT ![t] = "SUCCESS"]
    /\ UNCHANGED << broker, unacked >>

\* except Exception: task_retry published, then raise self.retry(exc=e, ...)
CollectException(w) ==
    LET t == exec[w].msg.task_id
        m == exec[w].msg
        p1 == publish_to_redis(published, t,
                  Event("task_retry", "RETRY", ErrCollect, m.retries, NoInt))
    IN IF CanRetry(m.retries)
       THEN \* the message is sent again with retries + 1; Retry is raised
            /\ published' = p1
            /\ broker' = broker (+)
                   SetToBag({Message(t, m.collector_type, m.retries + 1)})
            /\ celery_state' = [celery_state EXCEPT ![t] = "RETRY"]
            /\ Ack(w)
       ELSE IF RetryRaises(ErrCollect) = "MaxRetriesExceededError"
       THEN \* except self.MaxRetriesExceededError: task_failed, error_result
            /\ published' = publish_to_redis(p1, t,
                   Event("task_failed", "FAILURE", ErrMaxRetries, NoInt, NoInt))
            /\ exec' = [exec EXCEPT ![w].pc = "on_success",
                                    ![w].retval = error_result(ErrExhausted)]
            /\ celery_state' = [celery_state EXCEPT ![t] = "SUCCESS"]
            /\ UNCHANGED << broker, unacked >>
       ELSE \* e leaves the task function: the task fails with e
            /\ published' = p1
            /\ exec' = [exec EXCEPT ![w].pc = "on_failure",
                                    ![w].exc = RetryRaises(ErrCollect)]
            /\ celery_state' = [celery_state EXCEPT ![t] = "FAILURE"]
            /\ UNCHANGED << broker, unacked >>

Collect(w) ==
    /\ exec[w].pc = "collect"
    /\ \E o \in CollectOutcomes :
         /\ attempts' = [attempts EXCEPT
                ![exec[w].msg.task_id][exec[w].msg.retries] = @ \cup {o}]
         /\ CASE o = "ok" -> CollectReturns(w, TRUE)
              [] o = "ok_failed" -> CollectReturns(w, FALSE)
              [] o = "ValueError" -> CollectValueError(w)
              [] OTHER -> CollectException(w)
    /\ UNCHANGED << users, rowLock, req, scan_history, clock, redeliveries,
                    redis_up, task_args,
                    opening_balance >>

\* OSINTScanTask.on_success, first half: publish task_complete
OnSuccessPublish(w) ==
    /\ exec[w].pc = "on_success"
    /\ published' = publish_to_redis(published, exec[w].msg.task_id,
                        Event("task_complete", "SUCCESS", Null, NoInt, NoInt))
    /\ exec' = [exec EXCEPT ![w].pc = "on_success_update"]
    /\ UNCHANGED << users, rowLock, req, broker, scan_history, clock,
                    celery_state, unacked, attempts, redeliveries, redis_up, task_args,
                    opening_balance >>

\* OSINTScanTask.on_success, second half: update_scan_log(SUCCESS, retval)
OnSuccessUpdate(w) ==
    /\ exec[w].pc = "on_success_update"
    /\ update_scan_log(exec[w].msg.task_id, "SUCCESS", exec[w].retval, Null)
    /\ Ack(w)
    /\ UNCHANGED << users, rowLock, req, broker, celery_state, published,
                    attempts, redeliveries, redis_up, task_args,
                    opening_balance >>

\* OSINTScanTask.on_failure, first half: publish task_failed
OnFailurePublish(w) ==
    /\ exec[w].pc = "on_failure"
    /\ published' = publish_to_redis(published, exec[w].msg.task_id,
                        Event("task_failed", "FAILURE", exec[w].exc, NoInt, NoInt))
    /\ exec' = [exec EXCEPT ![w].pc = "on_failure_update"]
    /\ UNCHANGED << users, rowLock, req, broker, scan_history, clock,
                    celery_state, unacked, attempts, redeliveries, redis_up, task_args,
                    opening_balance >>

\* an on_failure that gives the charge back to the account of the record
OnFailureRefund(w) ==
    /\ exec[w].pc = "on_failure_update"
    /\ update_scan_log(exec[w].msg.task_id, "FAILED", NoResult, exec[w].exc)
    /\ Ack(w)
    /\ LET row == scan_history[exec[w].msg.task_id]
       IN users' = IF row = NoRecord THEN users
                   ELSE [users EXCEPT ![row.user_id].credits_balance =
                                          @ + row.credits_charged]
    /\ UNCHANGED << rowLock, req, broker, celery_state, published,
                    attempts, redeliveries, redis_up, task_args,
                    opening_balance >>

\* OSINTScanTask.on_failure, second half: update_scan_log(FAILED, str(exc))
OnFailureUpdate(w) ==
    /\ exec[w].pc = "on_failure_update"
    /\ update_scan_log(exec[w].msg.task_id, "FAILED", NoResult, exec[w].exc)
    /\ Ack(w)
    /\ UNCHANGED << users, rowLock, req, broker, celery_state, published,
                    attempts, redeliveries, redis_up, task_args,
                    opening_balance >>

(***************************************************************************)
(* core/socket_manager.py, routers/websocket.py                            *)
(*                                                                         *)
(* The gateway runs on one asyncio event loop: the code between two awaits *)
(* is one step, and at every await another coroutine may run.  A listener  *)
(* owns one Redis pub/sub subscription; the server hands a subscription    *)
(* the messages published while it is subscribed, in order, so the         *)
(* subscription is the position `next` in the channel's messages.          *)
(***************************************************************************)
Viewers == 1 .. MaxViewers
ListenerIds == 1 .. MaxListeners

\* the acknowledgment sent by the endpoint; task events are kept in
\* `received` as their position in the channel
ConnectedAck == 0

\* late: history, whether a terminal event had been delivered to a viewer
\* of the task when this one connected
NewSocket ==
    [pc |-> "new", task_id |-> NoReq, open |-> TRUE, received |-> << >>,
     late |-> FALSE]

NoListener ==
    [pc |-> "unused", task_id |-> NoReq, cancelled |-> FALSE, subscribed |-> FALSE,
     next |-> 0, message |-> 0, connections |-> {}, pending |-> {},
     disconnected |-> {}]

\* ConnectionManager.__init__
GatewayInit ==
    /\ active_connections = << >>
    /\ listener_tasks = << >>
    /\ listeners = [l \in ListenerIds |-> NoListener]
    /\ ws = [v \in Viewers |-> NewSocket]
    /\ audience = [t \in TaskIds |-> << >>]

\* del d[key]
Without(d, key) == [k \in DOMAIN d \ {key} |-> d[k]]

\* d[key] = value
With(d, key, value) == [k \in DOMAIN d \cup {key} |-> IF k = key THEN value ELSE d[k]]

\* the fields of the manager that disconnect reads and writes
Manager ==
    [active_connections |-> active_connections,
     listener_tasks |-> listener_tasks,
     listeners |-> listeners]

\* asyncio.Task.done()
ListenerDone(l) == listeners[l].pc = "done"

\* asyncio.Task.cancel(): a request, raised in the task at its next await;
\* nothing for a task that is done
CancelListener(ls, l) ==
    IF ls[l].pc = "done" THEN ls ELSE [ls EXCEPT ![l].cancelled = TRUE]

\* disconnect leaves the listener of a task without viewers running
disconnectKeepListener(m, websocket, task_id) ==
    IF task_id \notin DOMAIN m.active_connections
    THEN m
    ELSE LET conns == m.active_connections[task_id] \ {websocket}
         IN IF conns = {}
            THEN [m EXCEPT !.active_connections = Without(@, task_id)]
            ELSE [m EXCEPT !.active_connections = With(@, task_id, conns)]

\* disconnect takes any call for the departure of the task's last viewer
disconnectTask(m, websocket, task_id) ==
    IF task_id \notin DOMAIN m.active_connections
    THEN m
    ELSE [active_connections |-> Without(m.active_connections, task_id),
          listener_tasks |-> Without(m.listener_tasks, task_id),
          listeners |->
              IF task_id \in DOMAIN m.listener_tasks
              THEN CancelListener(m.listeners, m.listener_tasks[task_id])
              ELSE m.listeners]

\* ConnectionManager.disconnect (it awaits nothing: one step)
disconnect(m, websocket, task_id) ==
    IF task_id \notin DOMAIN m.active_connections
    THEN m
    ELSE LET conns == m.active_connections[task_id] \ {websocket}
         IN IF conns = {}
            THEN [active_connections |-> Without(m.active_connections, task_id),
                  listener_tasks |-> Without(m.listener_tasks, task_id),
                  listeners |->
                      IF task_id \in DOMAIN m.listener_tasks
                      THEN CancelListener(m.listeners, m.listener_tasks[task_id])
                      ELSE m.listeners]
            ELSE [m EXCEPT !.active_connections = With(@, task_id, conns)]

\* for websocket in disconnected: await self.disconnect(websocket, task_id)
RECURSIVE disconnect_all(_, _, _)
disconnect_all(m, disconnected, task_id) ==
    IF disconnected = {}
    THEN m
    ELSE LET websocket == CHOOSE x \in disconnected : TRUE
         IN disconnect_all(disconnect(m, websocket, task_id),
                           disconnected \ {websocket}, task_id)

SetManager(m) ==
    /\ active_connections' = m.active_connections
    /\ listener_tasks' = m.listener_tasks
    /\ listeners' = m.listeners

\* the listener that connect starts: the first asyncio.Task not yet used
FreeListener == CHOOSE l \in ListenerIds :
                    /\ listeners[l].pc = "unused"
                    /\ \A k \in ListenerIds : k < l => listeners[k].pc # "unused"

\* a connect that starts a listener every time
NeedsListenerAlways(task_id) == TRUE

\* connect: task_id not in self.listener_tasks or its task is done
NeedsListener(task_id) ==
    \/ task_id \notin DOMAIN listener_tasks
    \/ ListenerDone(listener_tasks[task_id])

\* a viewer of the task has received a message with a terminal status
TerminalDelivered(task_id) ==
    \E u \in Viewers : \E i \in 1 .. Len(ws[u].received) :
        /\ ws[u].task_id = task_id
        /\ ws[u].received[i] # ConnectedAck
        /\ published[task_id][ws[u].received[i]].status \in {"SUCCESS", "FAILURE"}

\* ConnectionManager.connect after websocket.accept(): register the
\* websocket, start a listener if the task has none running
Connect(v) ==
    /\ ws[v].pc = "new"
    /\ \A u \in Viewers : u < v => ws[u].pc # "new"
    /\ \E task_id \in TaskIds :
         /\ active_connections' =
                With(active_connections, task_id,
                     IF task_id \in DOMAIN active_connections
                     THEN active_connections[task_id] \cup {v}
                     ELSE {v})
         /\ IF NeedsListener(task_id)
            THEN /\ \E l \in ListenerIds : listeners[l].pc = "unused"
                 /\ listener_tasks' = With(listener_tasks, task_id, FreeListener)
                 /\ listeners' = [listeners EXCEPT ![FreeListener] =
                        [NoListener EXCEPT !.pc = "created", !.task_id = task_id]]
            ELSE UNCHANGED << listener_tasks, listeners >>
         /\ ws' = [ws EXCEPT ![v].pc = "ack", ![v].task_id = task_id,
                             ![v].late = TerminalDelivered(task_id)]

\* websocket_scan_endpoint: send the connection confirmation
SendAck(v) ==
    /\ ws[v].pc = "ack"
    /\ ws[v].open
    /\ ws' = [ws EXCEPT ![v].pc = "receive",
                        ![v].received = Append(@, ConnectedAck)]
    /\ UNCHANGED << active_connections, listener_tasks, listeners >>

\* the client goes away: later sends raise, receive_text raises
\* WebSocketDisconnect
ClientCloses(v) ==
    /\ ws[v].pc \in {"ack", "receive"}
    /\ ws[v].open
    /\ ws' = [ws EXCEPT ![v].open = FALSE]
    /\ UNCHANGED << active_connections, listener_tasks, listeners >>

\* websocket_scan_endpoint: finally: await manager.disconnect(...)
EndpointDisconnect(v) ==
    /\ ws[v].pc \in {"ack", "receive"}
    /\ ~ws[v].open
    /\ SetManager(disconnect(Manager, v, ws[v].task_id))
    /\ ws' = [ws EXCEPT ![v].pc = "closed"]

\* _redis_listener up to pubsub.subscribe: from now on the subscription
\* gets what is published on the channel
ListenerSubscribe(l) ==
    /\ listeners[l].pc = "created"
    /\ ~listeners[l].cancelled
    /\ listeners' = [listeners EXCEPT
           ![l].pc = "listen",
           ![l].subscribed = TRUE,
           ![l].next = Len(published[listeners[l].task_id]) + 1]
    /\ UNCHANGED << active_connections, listener_tasks, ws >>

\* broadcast sends only to the first connection of the task
SnapshotOne(conns) == IF conns = {} THEN {} ELSE {CHOOSE x \in conns : TRUE}

\* broadcast: connections = list(self.active_connections[task_id])
Snapshot(conns) == conns

\* broadcast: return at once if the task has no connections, else copy them
Connections(task_id) ==
    IF task_id \in DOMAIN active_connections
    THEN Snapshot(active_connections[task_id])
    ELSE {}

\* the listener never stops for a status
IsTerminalNever(status) == FALSE

\* _redis_listener: json_data.get("status") in ["SUCCESS", "FAILURE"]
IsTerminal(status) == status \in {"SUCCESS", "FAILURE"}

\* the code after broadcast returns: break on a terminal status, else wait
\* for the next message
AfterBroadcast(l) ==
    LET e == published[listeners[l].task_id][listeners[l].message]
    IN IF IsTerminal(e.status) THEN "closing" ELSE "listen"

\* _redis_listener: the next message of the subscription arrives and
\* broadcast begins
ListenerReceive(l) ==
    LET task_id == listeners[l].task_id
    IN /\ listeners[l].pc = "listen"
       /\ ~listeners[l].cancelled
       /\ listeners[l].next <= Len(published[task_id])
       /\ listeners' = [listeners EXCEPT
              ![l].message = listeners[l].next,
              ![l].next = listeners[l].next + 1,
              ![l].pc = "broadcast",
              ![l].connections = Connections(task_id),
              ![l].pending = Connections(task_id),
              ![l].disconnected = {}]
       /\ UNCHANGED << active_connections, listener_tasks, ws >>

\* a send that raises ends the loop: the connections left get nothing
AbortOnFailure(pending, v) == {}

\* the loop goes on after a send that raised
AfterFailure(pending, v) == pending \ {v}

\* broadcast: await websocket.send_json(message) for one connection of the
\* copy; a send that raises puts the connection on the disconnected list
BroadcastSend(l) ==
    /\ listeners[l].pc = "broadcast"
    /\ ~listeners[l].cancelled
    /\ \E v \in listeners[l].pending :
         /\ IF ws[v].open
            THEN /\ ws' = [ws EXCEPT ![v].received = Append(@, listeners[l].message)]
                 /\ listeners' = [listeners EXCEPT ![l].pending = @ \ {v}]
            ELSE /\ ws' = ws
                 /\ listeners' = [listeners EXCEPT
                        ![l].pending = AfterFailure(@, v),
                        ![l].disconnected = @ \cup {v}]
    /\ UNCHANGED << active_connections, listener_tasks >>

\* broadcast: the loop is over, the failed connections are removed; then
\* back in _redis_listener
BroadcastEnd(l) ==
    /\ listeners[l].pc = "broadcast"
    /\ ~listeners[l].cancelled
    /\ listeners[l].pending = {}
    /\ LET m == disconnect_all(Manager, listeners[l].disconnected,
                               listeners[l].task_id)
       IN SetManager([m EXCEPT !.listeners[l].pc = AfterBroadcast(l),
                               !.listeners[l].connections = {},
                               !.listeners[l].disconnected = {}])
    /\ UNCHANGED ws

\* the cancellation reaches the listener at an await: CancelledError, then
\* the finally block; a task cancelled before its first step never runs
ListenerCancelled(l) ==
    /\ listeners[l].cancelled
    /\ listeners[l].pc \in {"created", "listen", "broadcast"}
    /\ listeners' = [listeners EXCEPT
           ![l].pc = IF listeners[l].pc = "created" THEN "done" ELSE "closing",
           ![l].connections = {},
           ![l].pending = {},
           ![l].disconnected = {}]
    /\ UNCHANGED << active_connections, listener_tasks, ws >>

\* finally: pubsub.unsubscribe, pubsub.close; the task is done
ListenerClose(l) ==
    /\ listeners[l].pc = "closing"
    /\ listeners' = [listeners EXCEPT ![l].pc = "done", ![l].subscribed = FALSE]
    /\ UNCHANGED << active_connections, listener_tasks, ws >>

\* _redis_listener: pubsub.subscribe or pubsub.listen raises (the
\* connection to Redis fails): except Exception logs the error, then the
\* finally block; nothing starts the listener again
ListenerFails(l) ==
    /\ listeners[l].pc \in {"created", "listen"}
    /\ ~listeners[l].cancelled
    /\ listeners' = [listeners EXCEPT ![l].pc = "closing"]
    /\ UNCHANGED << active_connections, listener_tasks, ws >>

RECURSIVE SumOver(_, _)
SumOver(d, keys) ==
    IF keys = {}
    THEN 0
    ELSE LET k == CHOOSE x \in keys : TRUE
         IN Cardinality(d[k]) + SumOver(d, keys \ {k})

\* GET /ws/health
websocket_health ==
    [active_tasks |-> Cardinality(DOMAIN active_connections),
     total_connections |-> SumOver(active_connections, DOMAIN active_connections),
     listener_tasks |-> Cardinality(DOMAIN listener_tasks)]

(***************************************************************************)
(* routers/history.py, services/history_service.py: one scan by id         *)
(*                                                                         *)
(* The rows of scan_history are keyed by task_id in this model; a row's    *)
(* key stands for its id as well, both being unique per row.               *)
(***************************************************************************)
HistoryReqs == 1 .. MaxHistoryReqs

\* target: history, what the lookup of the handler met: no row ("absent"),
\* a row of another account ("foreign") or the caller's row ("own")
NewHistoryReq ==
    [pc |-> "new", op |-> Null, user_id |-> NoInt, scan_id |-> NoInt,
     status_code |-> NoInt, detail |-> Null, body |-> NoRecord,
     target |-> Null]

\* the lookup ignores the owner
get_scan_by_id_any(scan_id, user_id) ==
    IF scan_id \in DOMAIN scan_history
    THEN scan_history[scan_id]
    ELSE NoRecord

\* get_scan_by_id: filter(id == scan_id, user_id == user_id).first()
get_scan_by_id(scan_id, user_id) ==
    IF /\ scan_id \in DOMAIN scan_history
       /\ scan_history[scan_id] # NoRecord
       /\ scan_history[scan_id].user_id = user_id
    THEN scan_history[scan_id]
    ELSE NoRecord

DetailNotFound == "Scan with ID '{scan_id}' not found or you don't have access to it"
DetailDeleted == "Scan history deleted successfully"
DetailDeleteFailed == "Failed to delete scan history"

TargetOf(scan_id, user_id) ==
    IF scan_id \notin DOMAIN scan_history \/ scan_history[scan_id] = NoRecord
    THEN "absent"
    ELSE IF scan_history[scan_id].user_id = user_id THEN "own" ELSE "foreign"

\* Depends(get_current_user) of a history request with header x_user_id:
\* 401 for a missing, malformed or unknown id, 403 for an inactive account
HistoryAdmit(h) ==
    /\ hreq[h].pc = "new"
    /\ \E op \in {"get", "delete"} : \E x \in XUserIdHeaders :
       \E scan_id \in DOMAIN scan_history :
         LET uid == ParseInt(x)
         IN hreq' = [hreq EXCEPT ![h] =
                IF uid = NoInt \/ uid \notin DOMAIN users
                THEN [@ EXCEPT !.pc = "done", !.op = op, !.scan_id = scan_id,
                               !.status_code = 401]
                ELSE IF ~users[uid].is_active
                THEN [@ EXCEPT !.pc = "done", !.op = op, !.scan_id = scan_id,
                               !.user_id = uid, !.status_code = 403]
                ELSE [@ EXCEPT !.pc = "handler", !.op = op, !.scan_id = scan_id,
                               !.user_id = uid]]
    /\ UNCHANGED scan_history

\* GET /history/{scan_id}
get_scan_details(h) ==
    /\ hreq[h].pc = "handler"
    /\ hreq[h].op = "get"
    /\ LET scan == get_scan_by_id(hreq[h].scan_id, hreq[h].user_id)
       IN hreq' = [hreq EXCEPT ![h] =
              IF scan = NoRecord
              THEN [@ EXCEPT !.pc = "done", !.status_code = 404,
                             !.detail = DetailNotFound,
                             !.target = TargetOf(hreq[h].scan_id, hreq[h].user_id)]
              ELSE [@ EXCEPT !.pc = "done", !.status_code = 200,
                             !.body = scan,
                             !.target = TargetOf(hreq[h].scan_id, hreq[h].user_id)]]
    /\ UNCHANGED scan_history

\* DELETE /history/{scan_id}: the lookup
delete_scan_history(h) ==
    /\ hreq[h].pc = "handler"
    /\ hreq[h].op = "delete"
    /\ LET scan == get_scan_by_id(hreq[h].scan_id, hreq[h].user_id)
       IN hreq' = [hreq EXCEPT ![h] =
              IF scan = NoRecord
              THEN [@ EXCEPT !.pc = "done", !.status_code = 404,
                             !.detail = DetailNotFound,
                             !.target = TargetOf(hreq[h].scan_id, hreq[h].user_id)]
              ELSE [@ EXCEPT !.pc = "delete",
                             !.target = TargetOf(hreq[h].scan_id, hreq[h].user_id)]]
    /\ UNCHANGED scan_history

\* DELETE /history/{scan_id}: db.delete(scan); db.commit(); a row that is
\* gone by now makes the commit raise: rollback and 500
DeleteCommit(h) ==
    /\ hreq[h].pc = "delete"
    /\ IF scan_history[hreq[h].scan_id] # NoRecord
       THEN /\ scan_history' = [scan_history EXCEPT ![hreq[h].scan_id] = NoRecord]
            /\ hreq' = [hreq EXCEPT ![h].pc = "done", ![h].status_code = 200,
                                    ![h].detail = DetailDeleted]
       ELSE /\ UNCHANGED scan_history
            /\ hreq' = [hreq EXCEPT ![h].pc = "done", ![h].status_code = 500,
                                    ![h].detail = DetailDeleteFailed]

(***************************************************************************)
(* routers/history.py, services/history_service.py: the list of an         *)
(* account's scans, and its statistics                                     *)
(*                                                                         *)
(* Each query is one statement and reads the table as it is then.  ORDER   *)
(* BY performed_at DESC leaves the order of rows with the same             *)
(* performed_at to the database.                                           *)
(***************************************************************************)
ScanStatus == {"PENDING", "PROCESSING", "SUCCESS", "FAILED", "CANCELLED"}

NoStats == [s \in {} |-> 0]

\* scans: the ids of the rows of the page, in the order of the answer
NewListReq ==
    [pc |-> "new", op |-> Null, user_id |-> NoInt, page |-> NoInt,
     limit |-> NoInt, status_filter |-> Null, status_code |-> NoInt,
     total |-> NoInt, scans |-> << >>, pages |-> NoInt,
     counts |-> NoStats, total_scans |-> NoInt,
     total_credits_spent |-> NoInt]

\* the page numbers and page sizes the requests of the model ask for
PagesAsked == 0 .. MaxRows
LimitsAsked == 0 .. MaxRows - 1 \cup {MaxLimit, MaxLimit + 1}
FiltersAsked == {Null, "PENDING", "SUCCESS", "FAILED"}

\* Query(1, ge=1) and Query(10, ge=1, le=100)
ValidPaging(page, limit) == page >= 1 /\ limit >= 1 /\ limit <= MaxLimit

\* Depends(get_current_user), then the validation of the query parameters
ListAdmit ==
    /\ lreq.pc = "new"
    /\ \E x \in XUserIdHeaders : \E op \in {"list", "stats"} :
       \E page \in PagesAsked : \E limit \in LimitsAsked :
       \E f \in FiltersAsked :
         LET uid == ParseInt(x)
         IN /\ op = "stats" => (page = 1 /\ limit = 1 /\ f = Null)
            /\ lreq' =
                 IF uid = NoInt \/ uid \notin DOMAIN users
                 THEN [lreq EXCEPT !.pc = "done", !.op = op, !.status_code = 401]
                 ELSE IF ~users[uid].is_active
                 THEN [lreq EXCEPT !.pc = "done", !.op = op, !.user_id = uid,
                                   !.status_code = 403]
                 ELSE IF op = "stats"
                 THEN [lreq EXCEPT !.pc = "counts", !.op = op, !.user_id = uid]
                 ELSE IF ~ValidPaging(page, limit)
                 THEN [lreq EXCEPT !.pc = "done", !.op = op, !.user_id = uid,
                                   !.page = page, !.limit = limit,
                                   !.status_filter = f, !.status_code = 422]
                 ELSE [lreq EXCEPT !.pc = "count", !.op = op, !.user_id = uid,
                                   !.page = page, !.limit = limit,
                                   !.status_filter = f]

\* a query that forgets the account
QueryAll(user_id, status_filter) ==
    {t \in DOMAIN scan_history :
        /\ scan_history[t] # NoRecord
        /\ status_filter # Null => scan_history[t].status = status_filter}

\* query.filter(user_id == user_id), and filter(status == status_filter)
\* when a filter is given: the ids of the rows selected
Query(user_id, status_filter) ==
    {t \in DOMAIN scan_history :
        /\ scan_history[t] # NoRecord
        /\ scan_history[t].user_id = user_id
        /\ status_filter # Null => scan_history[t].status = status_filter}

\* total = query.count()
ListCount ==
    /\ lreq.pc = "count"
    /\ lreq' = [lreq EXCEPT !.pc = "page",
                            !.total = Cardinality(
                                Query(lreq.user_id, lreq.status_filter))]

\* the orders ORDER BY performed_at DESC can give the rows
OrderByPerformedAtDesc(rows) ==
    {o \in [1 .. Cardinality(rows) -> rows] :
        /\ \A i, j \in DOMAIN o : i # j => o[i] # o[j]
        /\ \A i, j \in DOMAIN o :
             i < j => scan_history[o[i]].performed_at
                          >= scan_history[o[j]].performed_at}

\* an offset counting pages from 0
OffsetFromZero(page, limit) == page * limit

\* offset = (page - 1) * limit
Offset(page, limit) == (page - 1) * limit

\* .offset(offset).limit(limit).all()
Slice(o, offset, limit) ==
    [i \in 1 .. (IF Len(o) - offset < 0 THEN 0
                 ELSE IF Len(o) - offset < limit THEN Len(o) - offset
                 ELSE limit) |-> o[offset + i]]

\* pages = (total + limit - 1) // limit if total > 0 else 0
Pages(total, limit) ==
    IF total > 0 THEN (total + limit - 1) \div limit ELSE 0

\* the page query, then the answer of get_history
ListPage ==
    /\ lreq.pc = "page"
    /\ \E o \in OrderByPerformedAtDesc(Query(lreq.user_id, lreq.status_filter)) :
         lreq' = [lreq EXCEPT
                     !.pc = "done", !.status_code = 200,
                     !.scans = Slice(o, Offset(lreq.page, lreq.limit),
                                     lreq.limit),
                     !.pages = Pages(lreq.total, lreq.limit)]

\* counts taken over the rows of every account
CountByStatusAll(user_id) ==
    LET present == {scan_history[t].status : t \in QueryAll(user_id, Null)}
    IN [st \in present |-> Cardinality(QueryAll(user_id, st))]

\* SELECT status, count(id) ... WHERE user_id = :user_id GROUP BY status:
\* one entry per status that has rows
CountByStatus(user_id) ==
    LET present == {scan_history[t].status : t \in Query(user_id, Null)}
    IN [st \in present |-> Cardinality(Query(user_id, st))]

\* get_scan_statistics, first query
StatsCounts ==
    /\ lreq.pc = "counts"
    /\ lreq' = [lreq EXCEPT !.pc = "credits",
                            !.counts = CountByStatus(lreq.user_id)]

RECURSIVE SumCredits(_)
\* func.sum(credits_charged) over the rows
SumCredits(rows) ==
    IF rows = {} THEN 0
    ELSE LET t == CHOOSE x \in rows : TRUE
         IN scan_history[t].credits_charged + SumCredits(rows \ {t})

RECURSIVE SumCounts(_, _)
\* sum(count for _, count in status_counts)
SumCounts(counts, keys) ==
    IF keys = {} THEN 0
    ELSE LET k == CHOOSE x \in keys : TRUE
         IN counts[k] + SumCounts(counts, keys \ {k})

\* get_scan_statistics, second query, then ScanStatistics(**stats): a
\* status without rows is reported as 0
StatsCredits ==
    /\ lreq.pc = "credits"
    /\ lreq' = [lreq EXCEPT
                   !.pc = "done", !.status_code = 200,
                   !.total_scans = SumCounts(lreq.counts, DOMAIN lreq.counts),
                   !.total_credits_spent =
                       SumCredits(Query(lreq.user_id, Null)),
                   !.counts = [st \in ScanStatus |->
                                  IF st \in DOMAIN lreq.counts
                                  THEN lreq.counts[st] ELSE 0]]


(***************************************************************************)
(* routers/scan.py: get_scan_status, cancel_scan                           *)
(*                                                                         *)
(* celery_app.control.revoke(task_id, terminate=True) broadcasts a command *)
(* to the workers and returns.  A worker that handles the command keeps    *)
(* the id in its revoked set, and terminates the pool process that is      *)
(* executing the task; a message of a revoked task that arrives later is   *)
(* dropped.  Either way the result backend gets the state REVOKED, and     *)
(* the task's on_success / on_failure handlers do not run.                 *)
(***************************************************************************)
ControlReqs == 1 .. MaxControlReqs

NewControlReq ==
    [pc |-> "new", op |-> Null, user_id |-> NoInt, task_id |-> NoInt,
     status_code |-> NoInt, status |-> Null, state_then |-> Null,
     submitter |-> NoInt]

ControlInit ==
    /\ creq = [c \in ControlReqs |-> NewControlReq]
    /\ revoked = [sent |-> {}, known |-> {}]

\* AsyncResult(task_id).state: an id the backend has nothing for is PENDING
AsyncResultState(task_id) ==
    IF task_id \notin DOMAIN celery_state \/ celery_state[task_id] = "NONE"
    THEN "PENDING"
    ELSE celery_state[task_id]

\* the account that submitted the task with POST /scan, or NoInt
SubmitterOf(task_id) ==
    IF task_id \in DOMAIN req /\ req[task_id].pc \in
           {"create_scan_log", "respond", "returned"}
    THEN req[task_id].user_id
    ELSE NoInt

\* Depends(get_current_user) of a status / cancel request: 401 for a
\* missing, malformed or unknown id, 403 for an inactive account; the
\* handlers take the user as `_` and never look at it
ControlAdmit(c) ==
    /\ creq[c].pc = "new"
    /\ \E op \in {"status", "cancel"} : \E x \in XUserIdHeaders :
       \E task_id \in TaskIds :
         LET uid == ParseInt(x)
         IN creq' = [creq EXCEPT ![c] =
                IF uid = NoInt \/ uid \notin DOMAIN users
                THEN [@ EXCEPT !.pc = "done", !.op = op, !.task_id = task_id,
                               !.status_code = 401]
                ELSE IF ~users[uid].is_active
                THEN [@ EXCEPT !.pc = "done", !.op = op, !.task_id = task_id,
                               !.user_id = uid, !.status_code = 403]
                ELSE [@ EXCEPT !.pc = "handler", !.op = op,
                               !.task_id = task_id, !.user_id = uid]]
    /\ UNCHANGED revoked

\* GET /scan/{task_id}: TaskStatusResponse(task_id, status=task_result.state)
\* state_then, submitter: history, the task when the handler ran
get_scan_status(c) ==
    /\ creq[c].pc = "handler"
    /\ creq[c].op = "status"
    /\ creq' = [creq EXCEPT ![c].pc = "done", ![c].status_code = 200,
                            ![c].status = AsyncResultState(creq[c].task_id),
                            ![c].state_then = AsyncResultState(creq[c].task_id),
                            ![c].submitter = SubmitterOf(creq[c].task_id)]
    /\ UNCHANGED revoked

\* GET /scan/{task_id}/cancel: revoke(task_id, terminate=True), "REVOKED"
cancel_scan(c) ==
    /\ creq[c].pc = "handler"
    /\ creq[c].op = "cancel"
    /\ revoked' = [revoked EXCEPT !.sent = @ \cup {creq[c].task_id}]
    /\ creq' = [creq EXCEPT ![c].pc = "done", ![c].status_code = 200,
                            ![c].status = "REVOKED",
                            ![c].state_then = AsyncResultState(creq[c].task_id),
                            ![c].submitter = SubmitterOf(creq[c].task_id)]

\* the workers running the task
RunningOn(task_id) ==
    {w \in Workers : exec[w].pc # "idle" /\ exec[w].msg.task_id = task_id}

\* the unacknowledged messages without those the workers in ws were running
Unrun(ws_) ==
    IF ws_ = {} THEN unacked
    ELSE unacked (-) SetToBag({exec[w].msg : w \in ws_})

\* the workers handle the revoke command: the id joins the revoked set and
\* the process running the task is terminated, wherever it is
WorkerRevoke(task_id) ==
    /\ task_id \in revoked.sent
    /\ revoked' = [sent |-> revoked.sent \ {task_id},
                   known |-> revoked.known \cup {task_id}]
    /\ exec' = [w \in Workers |->
                   IF w \in RunningOn(task_id) THEN IdleWorker ELSE exec[w]]
    /\ unacked' = Unrun(RunningOn(task_id))
    /\ celery_state' =
           IF RunningOn(task_id) # {}
           THEN [celery_state EXCEPT ![task_id] = "REVOKED"]
           ELSE celery_state
    /\ UNCHANGED << users, rowLock, req, broker, scan_history, clock,
                    published, attempts, redeliveries, redis_up, task_args,
                    opening_balance >>
    /\ UNCHANGED << gatewayVars, audience, historyVars, creq >>

\* a message of a revoked task reaches a worker: dropped, state REVOKED
DiscardRevoked ==
    /\ \E m \in BagToSet(broker) :
         /\ m.task_id \in revoked.known
         /\ broker' = broker (-) SetToBag({m})
         /\ celery_state' = [celery_state EXCEPT ![m.task_id] = "REVOKED"]
    /\ UNCHANGED << users, rowLock, req, scan_history, clock, published, exec,
                    unacked, attempts, redeliveries, redis_up, task_args,
                    opening_balance >>
    /\ UNCHANGED << gatewayVars, audience, historyVars, controlVars >>


(***************************************************************************)
(* Specifications                                                          *)
(***************************************************************************)
UserIds == {1, 2}

InitTables(nreq, ntask) ==
    /\ rowLock = [u \in UserIds |-> NoReq]
    /\ req = [r \in 1 .. nreq |-> NewReq]
    /\ broker = EmptyBag
    /\ scan_history = [t \in 1 .. ntask |-> NoRecord]
    /\ clock = 1
    /\ celery_state = [t \in 1 .. ntask |-> "NONE"]
    /\ published = [t \in 1 .. ntask |-> << >>]
    /\ exec = [w \in Workers |-> IdleWorker]
    /\ unacked = EmptyBag
    /\ attempts = [t \in 1 .. ntask |-> [k \in 0 .. max_retries |-> {}]]
    /\ redeliveries = 0
    /\ task_args = [t \in 1 .. ntask |-> Null]
    /\ opening_balance = [u \in UserIds |-> users[u].credits_balance]

\* a step of the API or of a worker: the gateway and the history handlers
\* are not involved
Elsewhere == UNCHANGED << gatewayVars, audience, historyVars, controlVars >>

\* a step of the gateway
coreVars == << users, rowLock, req, broker, scan_history, clock, celery_state,
               published, exec, unacked, attempts, redeliveries, redis_up,
               task_args, opening_balance >>

Submission ==
    \/ \E r \in DOMAIN req : GetCurrentUserId(r) /\ Elsewhere
    \/ \E r \in DOMAIN req : GetCurrentUser(r) /\ Elsewhere
    \/ \E r \in DOMAIN req : LockUserRow(r) /\ Elsewhere
    \/ \E r \in DOMAIN req : CheckAndDeduct(r) /\ Elsewhere
    \/ \E r \in DOMAIN req : RefreshUser(r) /\ Elsewhere
    \/ \E r \in DOMAIN req : Delay(r) /\ Elsewhere
    \/ \E r \in DOMAIN req : CreateScanLog(r) /\ Elsewhere
    \/ \E r \in DOMAIN req : Respond(r) /\ Elsewhere

\* admission and submission: MaxReqs concurrent requests against account 1
\* (active) and account 2 (inactive), no worker running
InitLedger ==
    /\ \E b \in 0 .. MaxBalance :
         users = [u \in UserIds |->
                    IF u = 1 THEN [credits_balance |-> b, is_active |-> TRUE]
                    ELSE [credits_balance |-> DefaultCredits,
                          is_active |-> FALSE]]
    /\ InitTables(MaxReqs, MaxReqs)
    /\ redis_up = TRUE
    /\ GatewayInit
    /\ hreq = << >>
    /\ ControlInit
    /\ lreq = NewListReq

NextLedger == Submission

SpecLedger == InitLedger /\ [][NextLedger]_vars

\* as SpecLedger, and the broker or the database may fail the handler
\* after the reservation was granted
Outage ==
    \/ \E r \in DOMAIN req : DelayFails(r) /\ Elsewhere
    \/ \E r \in DOMAIN req : CreateScanLogFails(r) /\ Elsewhere

NextOutage ==
    \/ Submission
    \/ Outage

SpecOutage == InitLedger /\ [][NextOutage]_vars

\* as SpecLedger, and the database may fail the commit of a reservation;
\* every request that can take a step eventually takes one: the server runs
\* each handler to its end, and the database hands a released row lock to a
\* transaction waiting for it
NextLock ==
    \/ Submission
    \/ \E r \in DOMAIN req : CommitFails(r) /\ Elsewhere

FairLock ==
    \A r \in 1 .. MaxReqs :
        /\ WF_vars(GetCurrentUserId(r) /\ Elsewhere)
        /\ WF_vars(GetCurrentUser(r) /\ Elsewhere)
        /\ WF_vars(LockUserRow(r) /\ Elsewhere)
        /\ WF_vars((CheckAndDeduct(r) \/ CommitFails(r)) /\ Elsewhere)

SpecLock == InitLedger /\ [][NextLock]_vars /\ FairLock

\* submission and execution: MaxTasks tasks, each sent by POST /scan or by
\* another producer; the workers run, every message is delivered once
InitExec ==
    /\ users = [u \in UserIds |->
                  [credits_balance |-> DefaultCredits, is_active |-> u = 1]]
    /\ \E n \in 0 .. MaxTasks : InitTables(n, MaxTasks)
    /\ redis_up \in BOOLEAN
    /\ GatewayInit
    /\ hreq = << >>
    /\ ControlInit
    /\ lreq = NewListReq

Execution ==
    \/ \E w \in Workers : Deliver(w) /\ Elsewhere
    \/ \E w \in Workers : StartScan(w) /\ Elsewhere
    \/ \E w \in Workers : ResolveCollector(w) /\ Elsewhere
    \/ \E w \in Workers : Collect(w) /\ Elsewhere
    \/ \E w \in Workers : OnSuccessPublish(w) /\ Elsewhere
    \/ \E w \in Workers : OnSuccessUpdate(w) /\ Elsewhere
    \/ \E w \in Workers : OnFailurePublish(w) /\ Elsewhere
    \/ \E w \in Workers : OnFailureUpdate(w) /\ Elsewhere

NextExec ==
    \/ Submission
    \/ \E t \in TaskIds : DirectDelay(t) /\ Elsewhere
    \/ Execution

SpecExec == InitExec /\ [][NextExec]_vars

\* as SpecExec, and the broker may deliver a message more than once; the
\* Redis pub/sub server is down, so only the tables record the run
InitDup ==
    /\ InitExec
    /\ redis_up = FALSE

NextDup ==
    \/ NextExec
    \/ Redeliver /\ Elsewhere

SpecDup == InitDup /\ [][NextDup]_vars

\* a step of the gateway leaves the tables, the broker and the workers alone
GatewayStep == UNCHANGED << coreVars, audience, historyVars, controlVars >>

Gateway ==
    \/ \E v \in Viewers : Connect(v) /\ GatewayStep
    \/ \E v \in Viewers : SendAck(v) /\ GatewayStep
    \/ \E v \in Viewers : ClientCloses(v) /\ GatewayStep
    \/ \E v \in Viewers : EndpointDisconnect(v) /\ GatewayStep
    \/ \E l \in ListenerIds : ListenerSubscribe(l) /\ GatewayStep
    \/ \E l \in ListenerIds : ListenerReceive(l) /\ GatewayStep
    \/ \E l \in ListenerIds : BroadcastSend(l) /\ GatewayStep
    \/ \E l \in ListenerIds : BroadcastEnd(l) /\ GatewayStep
    \/ \E l \in ListenerIds : ListenerCancelled(l) /\ GatewayStep
    \/ \E l \in ListenerIds : ListenerClose(l) /\ GatewayStep

\* the messages a run of perform_osint_scan publishes, by what the gateway
\* tells apart: progress, the error of the ValueError branch, the failure
\* of on_failure, the completion of on_success
ProgressEvent == Event("task_progress", "PROCESSING", Null, NoInt, 50)
ErrorEvent == Event("task_error", "FAILURE", ErrCollectValue, NoInt, NoInt)
FailedEvent == Event("task_failed", "FAILURE", ErrCollect, NoInt, NoInt)
CompleteEvent == Event("task_complete", "SUCCESS", Null, NoInt, NoInt)

ExecutorEvents == {ProgressEvent, ErrorEvent, FailedEvent, CompleteEvent}

\* the order of the publish_to_redis calls of one run: task_error is
\* followed by task_error or by the task_complete of on_success; nothing
\* follows task_complete or task_failed
MayFollow(last, e) ==
    CASE last.type \in {"task_started", "task_progress", "task_retry"} -> TRUE
      [] last.type = "task_error" -> e.type \in {"task_error", "task_complete"}
      [] OTHER -> FALSE

\* the viewers in active_connections for the task
RegisteredViewers(t) ==
    IF t \in DOMAIN active_connections THEN active_connections[t] ELSE {}

\* a worker calls publish_to_redis: the next message of the run
ExecutorPublishes(t) ==
    /\ Len(published[t]) < MaxEvents
    /\ \E e \in ExecutorEvents :
         /\ published[t] # << >> => MayFollow(published[t][Len(published[t])], e)
         /\ published' = publish_to_redis(published, t, e)
    /\ audience' = [audience EXCEPT ![t] = Append(@, RegisteredViewers(t))]
    /\ UNCHANGED << gatewayVars, historyVars, controlVars >>
    /\ UNCHANGED << users, rowLock, req, broker, scan_history, clock,
                    celery_state, exec, unacked, attempts, redeliveries,
                    redis_up, task_args, opening_balance >>

\* live updates: the channel of one task, Redis up; a worker publishes the
\* messages of a run while MaxViewers clients connect to the channel,
\* listen and go away at any moment
InitGateway ==
    /\ users = [u \in UserIds |->
                  [credits_balance |-> DefaultCredits, is_active |-> u = 1]]
    /\ InitTables(0, 1)
    /\ redis_up = TRUE
    /\ GatewayInit
    /\ hreq = << >>
    /\ ControlInit
    /\ lreq = NewListReq

NextGateway ==
    \/ \E t \in TaskIds : ExecutorPublishes(t)
    \/ Gateway

SpecGateway == InitGateway /\ [][NextGateway]_vars

\* live updates with an unreliable bus: the connection of a listener to
\* Redis may fail while it subscribes or waits for a message
BusError == \E l \in ListenerIds : ListenerFails(l) /\ GatewayStep

NextBusError ==
    \/ NextGateway
    \/ BusError

SpecBusError == InitGateway /\ [][NextBusError]_vars


\* a step of a history handler
HistoryStep ==
    UNCHANGED << users, rowLock, req, broker, clock, celery_state, published,
                 exec, unacked, attempts, redeliveries, redis_up, task_args,
                 opening_balance, gatewayVars, audience, controlVars, lreq >>

\* the rows create_scan_log has written for the scans of two accounts
HistoryRows(scan_id) ==
    {NoRecord} \cup {create_scan_log(u, "dns", scan_id, 1) : u \in UserIds}

\* the ids of the table: one more than the tasks of a run
ScanIds == 1 .. MaxTasks + 1

\* history by id: two active accounts, a table where each row is absent or
\* belongs to one of them, and MaxHistoryReqs concurrent GET / DELETE
\* /history/{scan_id} requests
InitHistory ==
    /\ users = [u \in UserIds |->
                  [credits_balance |-> DefaultCredits, is_active |-> TRUE]]
    /\ rowLock = [u \in UserIds |-> NoReq]
    /\ req = << >>
    /\ broker = EmptyBag
    /\ scan_history \in [ScanIds -> UNION {HistoryRows(i) : i \in ScanIds}]
    /\ \A i \in DOMAIN scan_history : scan_history[i] \in HistoryRows(i)
    /\ clock = 2
    /\ celery_state = [t \in DOMAIN scan_history |->
                          IF scan_history[t] = NoRecord THEN "NONE" ELSE "PENDING"]
    /\ published = [t \in DOMAIN scan_history |-> << >>]
    /\ exec = [w \in Workers |-> IdleWorker]
    /\ unacked = EmptyBag
    /\ attempts = [t \in DOMAIN scan_history |-> [k \in 0 .. max_retries |-> {}]]
    /\ redeliveries = 0
    /\ redis_up = TRUE
    /\ task_args = [t \in DOMAIN scan_history |->
                       IF scan_history[t] = NoRecord THEN Null ELSE "dns"]
    /\ opening_balance = [u \in UserIds |-> users[u].credits_balance]
    /\ GatewayInit
    /\ hreq = [h \in HistoryReqs |-> NewHistoryReq]
    /\ ControlInit
    /\ lreq = NewListReq

NextHistory ==
    \/ \E h \in HistoryReqs : HistoryAdmit(h) /\ HistoryStep
    \/ \E h \in HistoryReqs : get_scan_details(h) /\ HistoryStep
    \/ \E h \in HistoryReqs : delete_scan_history(h) /\ HistoryStep
    \/ \E h \in HistoryReqs : DeleteCommit(h) /\ HistoryStep

SpecHistory == InitHistory /\ [][NextHistory]_vars

\* a step of a status / cancel handler
ControlStep ==
    UNCHANGED << coreVars, gatewayVars, audience, historyVars >>

Control ==
    \/ \E c \in ControlReqs : ControlAdmit(c) /\ ControlStep
    \/ \E c \in ControlReqs : get_scan_status(c) /\ ControlStep
    \/ \E c \in ControlReqs : cancel_scan(c) /\ ControlStep

Revocation ==
    \/ \E t \in TaskIds : WorkerRevoke(t)
    \/ DiscardRevoked

\* one history request by id next to the run of the task
HistoryById ==
    \/ \E h \in DOMAIN hreq : HistoryAdmit(h) /\ HistoryStep
    \/ \E h \in DOMAIN hreq : get_scan_details(h) /\ HistoryStep
    \/ \E h \in DOMAIN hreq : delete_scan_history(h) /\ HistoryStep
    \/ \E h \in DOMAIN hreq : DeleteCommit(h) /\ HistoryStep

\* task control: two active accounts; MaxTasks tasks are submitted with
\* POST /scan and run by the workers while MaxControlReqs status / cancel
\* requests and one history request arrive at any moment
InitControl ==
    /\ users = [u \in UserIds |->
                  [credits_balance |-> DefaultCredits, is_active |-> TRUE]]
    /\ InitTables(MaxTasks, MaxTasks)
    /\ redis_up = FALSE
    /\ GatewayInit
    /\ hreq = [h \in {1} |-> NewHistoryReq]
    /\ ControlInit
    /\ lreq = NewListReq

NextControl ==
    \/ Submission
    \/ Execution
    \/ Control
    \/ Revocation
    \/ HistoryById

SpecControl == InitControl /\ [][NextControl]_vars


\* a step of the list / statistics handler
ListingStep ==
    UNCHANGED << coreVars, gatewayVars, audience, hreq, controlVars >>

\* the rows a table can hold for one scan: none, or the row create_scan_log
\* wrote for an account at some time, as it is or updated by on_success or
\* on_failure
ListedRows(scan_id) ==
    {NoRecord} \cup
    UNION {LET row == create_scan_log(u, "dns", scan_id, now)
           IN {row,
               UpdatedRow(row, "SUCCESS", result_dict(TRUE), Null, MaxRows),
               UpdatedRow(row, "FAILED", NoResult, ErrCollect, MaxRows)} :
           u \in UserIds, now \in 1 .. MaxRows - 1}

\* listing and statistics: two active accounts, a table of up to MaxRows
\* rows in any of the states above, and one GET /history or
\* GET /history/stats/summary request
InitListing ==
    /\ users = [u \in UserIds |->
                  [credits_balance |-> DefaultCredits, is_active |-> TRUE]]
    /\ rowLock = [u \in UserIds |-> NoReq]
    /\ req = << >>
    /\ broker = EmptyBag
    /\ scan_history \in [1 .. MaxRows -> UNION {ListedRows(i) : i \in 1 .. MaxRows}]
    /\ \A i \in DOMAIN scan_history : scan_history[i] \in ListedRows(i)
    /\ clock = MaxRows + 1
    /\ celery_state = [t \in DOMAIN scan_history |->
                          CASE scan_history[t].status = "NONE" -> "NONE"
                            [] scan_history[t].status = "FAILED" -> "FAILURE"
                            [] OTHER -> scan_history[t].status]
    /\ published = [t \in DOMAIN scan_history |-> << >>]
    /\ exec = [w \in Workers |-> IdleWorker]
    /\ unacked = EmptyBag
    /\ attempts = [t \in DOMAIN scan_history |-> [k \in 0 .. max_retries |-> {}]]
    /\ redeliveries = 0
    /\ redis_up = TRUE
    /\ task_args = [t \in DOMAIN scan_history |->
                       IF scan_history[t] = NoRecord THEN Null ELSE "dns"]
    /\ opening_balance = [u \in UserIds |-> users[u].credits_balance]
    /\ GatewayInit
    /\ hreq = << >>
    /\ ControlInit
    /\ lreq = NewListReq

NextListing ==
    \/ ListAdmit /\ ListingStep
    \/ ListCount /\ ListingStep
    \/ ListPage /\ ListingStep
    \/ StatsCounts /\ ListingStep
    \/ StatsCredits /\ ListingStep

SpecListing == InitListing /\ [][NextListing]_vars


(***************************************************************************)
(* Properties of the credit reservation (SpecLedger)                       *)
(***************************************************************************)
\* positions of a request whose reservation was granted
GrantedPcs == {"refresh", "granted", "create_scan_log", "respond", "returned",
               "failed"}

Granted(u) == {r \in DOMAIN req : req[r].user_id = u /\ req[r].pc \in GrantedPcs}

Rejected402(u) ==
    {r \in DOMAIN req : req[r].user_id = u /\ req[r].pc = "rejected"
                        /\ req[r].status_code = 402}

C2_BalanceNonNegative ==
    \A u \in DOMAIN users : users[u].credits_balance >= 0

\* a reservation was refused on a balance that the cost would have overdrawn
C2_Witness ==
    \E r \in DOMAIN req :
        /\ req[r].status_code = 402
        /\ req[r].available > 0
        /\ users[req[r].user_id].credits_balance = req[r].available

MessagesOf(t) ==
    {m \in BagToSet(broker) \cup BagToSet(unacked) : m.task_id = t}

\* C3: a submission rejected at admission (401, 403, 402) changes no balance
\* in the step that rejects it, and it never has a scan record or a task.
C3_RejectedNoEffect ==
    /\ [](\A r \in DOMAIN req :
            req[r].pc = "rejected" =>
                /\ scan_history[r] = NoRecord
                /\ MessagesOf(r) = {}
                /\ celery_state[r] = "NONE")
    /\ [][\A r \in DOMAIN req :
            (req[r].pc # "rejected" /\ req'[r].pc = "rejected") =>
                /\ users' = users
                /\ scan_history' = scan_history
                /\ broker' = broker]_vars

\* one submission rejected for each reason, next to a granted one
C3_Witness ==
    /\ \E r \in DOMAIN req : req[r].pc = "rejected" /\ req[r].status_code = 401
    /\ \E r \in DOMAIN req : req[r].pc = "rejected" /\ req[r].status_code = 403
    /\ \E r \in DOMAIN req : req[r].pc = "rejected" /\ req[r].status_code = 402
                             /\ req[r].available > 0

\* the request that has just been decided under the row lock
Decided(r) == req[r].pc = "locked" /\ req'[r].pc # "locked"

Quiescent ==
    /\ BagToSet(broker) = {}
    /\ BagToSet(unacked) = {}
    /\ \A w \in Workers : exec[w].pc = "idle"
    /\ \A r \in DOMAIN req : req[r].pc \in {"rejected", "returned", "failed"}

TerminalStatus == {"SUCCESS", "FAILED", "CANCELLED"}

\* update_scan_log has written the row of task t
RecordUpdated(t) == scan_history[t].status \notin {"NONE", "PENDING"}

\* collector.collect returned a result in some attempt of task t
CollectReturned(t) ==
    \E k \in 0 .. max_retries : attempts[t][k] \cap {"ok", "ok_failed"} # {}

\* C5: every task submitted by POST /scan whose routine run succeeds ends,
\* under every interleaving of initiate_scan and the worker, with its scan
\* record in status SUCCESS with a result snapshot and a completion time.
C5_SucceededTaskRecorded ==
    \A t \in DOMAIN req :
        (Quiescent /\ req[t].pc = "returned" /\ CollectReturned(t)) =>
            /\ scan_history[t].status = "SUCCESS"
            /\ scan_history[t].result_snapshot # NoResult
            /\ scan_history[t].completed_at # NoInt

\* C6: a delivery that finds the scan record in a terminal status leaves
\* status, result_snapshot, error_message and completed_at as they are.
C6_TerminalRecordFrozen ==
    [][\A t \in DOMAIN scan_history :
          scan_history[t].status \in TerminalStatus =>
              scan_history'[t] = scan_history[t]]_vars

RetryEvents(t) ==
    {i \in 1 .. Len(published[t]) : published[t][i].status = "RETRY"}

\* C7: a task whose routine name is not in the registry ends FAILED with an
\* error message naming the routine, after one execution and without retry.
C7_UnknownRoutineFails ==
    \A t \in TaskIds :
        (Quiescent /\ task_args[t] = "doesnotexist") =>
            /\ celery_state[t] = "FAILURE"
            /\ scan_history[t] # NoRecord =>
                  /\ scan_history[t].status = "FAILED"
                  /\ scan_history[t].error_message = ErrNotFound(task_args[t])
            /\ RetryEvents(t) = {}

\* the first three attempts of task t raised, none of them returned
ThreeTransientErrors(t) ==
    \A k \in 0 .. 2 : attempts[t][k] = {"Exception"}

AllAttemptsRaised(t) ==
    \A k \in 0 .. max_retries : attempts[t][k] = {"Exception"}

LastEvent(t) == published[t][Len(published[t])]

\* C9: when the failures persist past the retry ceiling the record ends
\* FAILED with a message saying the retries were exhausted, and a final
\* failed event is published.
C9_ExhaustedMessage ==
    \A t \in TaskIds :
        (Quiescent /\ AllAttemptsRaised(t) /\ RecordUpdated(t)) =>
            /\ scan_history[t].status = "FAILED"
            /\ scan_history[t].error_message \in {ErrExhausted, ErrMaxRetries}
            /\ redis_up =>
                  /\ LastEvent(t).type = "task_failed"
                  /\ LastEvent(t).status = "FAILURE"

CollectRaised(w) ==
    /\ exec[w].pc = "collect"
    /\ exec'[w].pc \notin {"collect", "on_success"}

ApiSubmitted(t) ==
    /\ t \in DOMAIN req
    /\ req[t].pc \in {"create_scan_log", "respond", "returned"}

\* worker w finishes handling a terminal outcome (on_success / on_failure)
OutcomeHandled(w) ==
    /\ exec[w].pc \in {"on_success_update", "on_failure_update"}
    /\ exec'[w].pc = "idle"

\* C11: every terminal outcome of the executor writes status, completion
\* time and result-or-error to the task's scan record, with or without
\* viewers and also when the terminal event could not be published.
C11_OutcomeAlwaysRecorded ==
    [][\A w \in Workers :
          (OutcomeHandled(w) /\ ApiSubmitted(exec[w].msg.task_id)) =>
              LET t == exec[w].msg.task_id
              IN /\ scan_history'[t].status \in {"SUCCESS", "FAILED"}
                 /\ scan_history'[t].completed_at = clock
                 /\ \/ scan_history'[t].result_snapshot # NoResult
                    \/ scan_history'[t].error_message # Null]_vars

TerminalEventStatus == {"SUCCESS", "FAILURE"}

\* positions of the events of task t that carry a terminal status
TerminalEvents(t) ==
    {i \in 1 .. Len(published[t]) :
        published[t][i].status \in TerminalEventStatus}

\* the terminal event viewers receive: the first one with a terminal
\* status, after which the listener stops
FirstTerminalEvent(t) ==
    published[t][CHOOSE i \in TerminalEvents(t) :
                     \A j \in TerminalEvents(t) : i <= j]

\* C12: the status of the terminal event the viewers of a task receive
\* (SUCCESS / FAILURE) agrees with the final status of the task's scan
\* record (SUCCESS / FAILED) on every execution path.
C12_EventAgreesWithRecord ==
    \A t \in TaskIds :
        (Quiescent /\ scan_history[t] # NoRecord /\ TerminalEvents(t) # {}) =>
            /\ FirstTerminalEvent(t).status = "SUCCESS" =>
                  scan_history[t].status = "SUCCESS"
            /\ FirstTerminalEvent(t).status = "FAILURE" =>
                  scan_history[t].status = "FAILED"

(***************************************************************************)
(* Properties of the live-updates gateway (SpecGateway)                    *)
(***************************************************************************)
\* the workers of SpecExec publish in the order SpecGateway's publisher
\* follows (an invariant of SpecExec)
ExecutorFollowsProtocol ==
    \A t \in TaskIds : \A i \in 1 .. Len(published[t]) - 1 :
        MayFollow(published[t][i], published[t][i + 1])

\* the task events viewer v has received, as positions in the channel
EventsOf(v) ==
    LET IsEvent(x) == x # ConnectedAck
    IN SelectSeq(ws[v].received, IsEvent)

\* viewer v has received the i-th message of its task's channel
Got(v, i) == \E k \in 1 .. Len(ws[v].received) : ws[v].received[k] = i

\* viewer v is connected, acknowledged and its client is there
Watching(v) == ws[v].pc = "receive" /\ ws[v].open

\* no listener has anything left to do: each is done, or waits for a
\* message that has not been published
GatewayQuiet ==
    \A l \in ListenerIds :
        \/ listeners[l].pc \in {"unused", "done"}
        \/ /\ listeners[l].pc = "listen"
           /\ ~listeners[l].cancelled
           /\ listeners[l].next > Len(published[listeners[l].task_id])

\* C13: every viewer registered for a task when an event is published
\* receives the event, and each viewer receives the events in the order
\* they were published.
C13_RegisteredViewersReceive ==
    \A v \in Viewers :
        (GatewayQuiet /\ Watching(v)) =>
            /\ \A i \in 1 .. Len(published[ws[v].task_id]) :
                  v \in audience[ws[v].task_id][i] => Got(v, i)
            /\ \A j, k \in 1 .. Len(EventsOf(v)) :
                  j < k => EventsOf(v)[j] < EventsOf(v)[k]

\* the events viewer v received among those published while u and v were
\* both registered
CommonEvents(v, u) ==
    LET t == ws[v].task_id
        Common(x) == x # ConnectedAck /\ v \in audience[t][x] /\ u \in audience[t][x]
    IN SelectSeq(ws[v].received, Common)

\* no broadcast for task t is under way
NoBroadcast(t) ==
    \A l \in ListenerIds :
        listeners[l].task_id = t => listeners[l].pc # "broadcast"

LeftBehind(l) ==
    /\ listeners[l].subscribed
    /\ ~listeners[l].cancelled
    /\ listeners[l].pc # "closing"

BroadcastReturns(l) ==
    /\ listeners[l].pc = "broadcast"
    /\ ~listeners[l].cancelled
    /\ listeners'[l].pc # "broadcast"

\* C16: a send that fails during a broadcast removes exactly the failing
\* connection from the task's viewer set, and every other connection of
\* the broadcast has received the event.
C16_FailureRemovesOnlyFailing ==
    [][\A l \in ListenerIds :
          BroadcastReturns(l) =>
              LET t == listeners[l].task_id
                  failed == listeners[l].disconnected
                  before == IF t \in DOMAIN active_connections
                            THEN active_connections[t] ELSE {}
                  after == IF t \in DOMAIN active_connections'
                           THEN active_connections'[t] ELSE {}
              IN /\ after = before \ failed
                 /\ \A v \in listeners[l].connections \ failed :
                       Got(v, listeners[l].message)]_vars

\* a broadcast to two connections is over: one send failed, the other
\* connection has the event
C16_Witness ==
    \E l \in ListenerIds : \E v, u \in Viewers :
        /\ listeners[l].pc = "broadcast"
        /\ listeners[l].pending = {}
        /\ listeners[l].disconnected = {u}
        /\ v \in listeners[l].connections \ {u}
        /\ Got(v, listeners[l].message)

\* the status of the message listener l handled last is terminal
HandledTerminal(l) ==
    /\ listeners[l].message > 0
    /\ published[listeners[l].task_id][listeners[l].message].status
           \in TerminalEventStatus

\* C17: a listener that receives a terminal event (SUCCESS or FAILURE)
\* forwards it to every connection of the task and only then closes its
\* subscription; it forwards no event after the terminal one.
C17_TerminalForwardedThenClosed ==
    /\ [][\A l \in ListenerIds :
            (BroadcastReturns(l) /\ HandledTerminal(l)) =>
                /\ listeners[l].subscribed
                /\ listeners'[l].pc = "closing"
                /\ \A v \in listeners[l].connections \ listeners[l].disconnected :
                      Got(v, listeners[l].message)]_vars
    /\ [][\A l \in ListenerIds :
            HandledTerminal(l) =>
                /\ listeners'[l].message = listeners[l].message
                /\ listeners'[l].pc \in {"broadcast", "closing", "done"}]_vars

\* a listener is done after it forwarded a terminal event to a viewer
C17_Witness ==
    \E l \in ListenerIds : \E v \in Viewers :
        /\ listeners[l].pc = "done"
        /\ ~listeners[l].cancelled
        /\ HandledTerminal(l)
        /\ Got(v, listeners[l].message)
        /\ Len(published[listeners[l].task_id]) > listeners[l].message

\* C18: a viewer that connects after a terminal event has been delivered
\* to earlier viewers of the task receives the acknowledgment and no task
\* event, whatever the executor publishes afterwards.
C18_LateViewerGetsNoEvents ==
    \A v \in Viewers : ws[v].late => EventsOf(v) = << >>

Answer(h) ==
    [status_code |-> hreq[h].status_code, detail |-> hreq[h].detail,
     body |-> hreq[h].body]

AnswerNotFound ==
    [status_code |-> 404, detail |-> DetailNotFound, body |-> NoRecord]

\* C20: get-by-id and delete-by-id give the same NotFound answer for a
\* record that does not exist and for a record of another account, and a
\* delete by a non-owner never removes or changes the record.
C20_NotFoundHidesForeignRecords ==
    /\ [](\A h \in HistoryReqs :
            (hreq[h].pc = "done" /\ hreq[h].target \in {"absent", "foreign"}) =>
                Answer(h) = AnswerNotFound)
    /\ [](\A h, g \in HistoryReqs :
            (/\ hreq[h].pc = "done" /\ hreq[g].pc = "done"
             /\ hreq[h].target = "absent" /\ hreq[g].target = "foreign") =>
                Answer(h) = Answer(g))
    /\ [][\A t \in DOMAIN scan_history :
            scan_history'[t] # scan_history[t] =>
                \E h \in HistoryReqs :
                    /\ hreq[h].op = "delete"
                    /\ hreq[h].scan_id = t
                    /\ hreq[h].user_id = scan_history[t].user_id
                    /\ hreq'[h].status_code = 200]_vars

\* a delete for a record of another account and a get for a record that
\* does not exist have both been answered, and the foreign record is there
C20_Witness ==
    \E h, g \in HistoryReqs :
        /\ hreq[h].pc = "done" /\ hreq[h].op = "delete"
        /\ hreq[h].target = "foreign"
        /\ scan_history[hreq[h].scan_id] # NoRecord
        /\ scan_history[hreq[h].scan_id].user_id # hreq[h].user_id
        /\ hreq[g].pc = "done" /\ hreq[g].op = "get"
        /\ hreq[g].target = "absent"
        /\ Answer(h) = Answer(g)

(***************************************************************************)
(* Properties of task status and cancel (SpecControl)                      *)
(***************************************************************************)
\* the requests the handler answered with 200
Answered(op) ==
    {c \in ControlReqs :
        creq[c].pc = "done" /\ creq[c].op = op /\ creq[c].status_code = 200}

\* C21: get-task-status and cancel-task answer with the task's status, or
\* revoke the task, only when the requesting account is the one that
\* submitted the task.
C21_OnlyOwnerReadsOrCancels ==
    \A c \in Answered("status") \cup Answered("cancel") :
        creq[c].submitter # NoInt => creq[c].user_id = creq[c].submitter

\* nothing of the run is left to happen: the requests are answered, the
\* queue is empty, the workers are idle, the revoke commands are handled
ControlQuiet ==
    /\ \A r \in DOMAIN req : req[r].pc \in {"returned", "rejected", "failed"}
    /\ \A c \in ControlReqs : creq[c].pc = "done"
    /\ \A h \in DOMAIN hreq : hreq[h].pc = "done"
    /\ broker = EmptyBag
    /\ \A w \in Workers : exec[w].pc = "idle"
    /\ revoked.sent = {}

\* the states of the result backend a task ends in
TerminalStates == {"SUCCESS", "FAILURE", "REVOKED"}

\* C22: once cancellation has been requested for a task that was not yet
\* terminal, the task's final recorded status is CANCELLED.
C22_CancelledIsFinal ==
    ControlQuiet =>
        \A c \in Answered("cancel") :
            (/\ creq[c].state_then \notin TerminalStates
             /\ scan_history[creq[c].task_id] # NoRecord) =>
                scan_history[creq[c].task_id].status = "CANCELLED"

\* C23: credits are never refunded: no step raises the balance of an
\* account, and a cancel, a revocation, the update of a FAILED task and
\* the deletion of a history record leave every balance as it is.
C23_NeverRefunded ==
    /\ [][\A u \in UserIds :
            users'[u].credits_balance <= users[u].credits_balance]_vars
    /\ [][(\/ revoked' # revoked
           \/ \E t \in DOMAIN scan_history :
                /\ scan_history[t] # NoRecord
                /\ \/ scan_history'[t] = NoRecord
                   \/ scan_history'[t].status = "FAILED") =>
              users' = users]_vars

\* the account was charged for a task that failed, the task was cancelled
\* afterwards and its record deleted: the balance is still the charged one
C23_Witness ==
    /\ Answered("cancel") # {}
    /\ revoked.known # {}
    /\ \E t \in TaskIds :
         /\ celery_state[t] = "FAILURE"
         /\ SubmitterOf(t) = 1
         /\ scan_history[t] = NoRecord
    /\ \E h \in DOMAIN hreq :
         /\ hreq[h].pc = "done" /\ hreq[h].op = "delete"
         /\ hreq[h].status_code = 200
    /\ users[1].credits_balance = DefaultCredits - ScanCost

(***************************************************************************)
(* Properties of the scan record (SpecDup)                                 *)
(***************************************************************************)
\* the fields of one row agree with each other
ConsistentRow(row) ==
    /\ row.completed_at # NoInt <=> row.status \in TerminalStatus
    /\ row.result_snapshot # NoResult => row.status \in {"SUCCESS", "FAILED"}
    /\ row.error_message # Null => row.status = "FAILED"

\* C24: in every reachable state of a scan record, completed_at is set
\* exactly when the status is terminal, a result snapshot is present only
\* with SUCCESS or FAILED, and an error message only with FAILED.
C24_RecordFieldsConsistent ==
    \A t \in DOMAIN scan_history :
        scan_history[t] # NoRecord => ConsistentRow(scan_history[t])

(***************************************************************************)
(* Properties of the history list and statistics (SpecListing)             *)
(***************************************************************************)
\* the rows of the account of the request that have the status asked for
Matching ==
    {t \in DOMAIN scan_history :
        /\ scan_history[t] # NoRecord
        /\ scan_history[t].user_id = lreq.user_id
        /\ lreq.status_filter \in {Null, scan_history[t].status}}

\* how many of the matching rows are newer than row t / at least as new
Newer(t) ==
    Cardinality({x \in Matching : scan_history[x].performed_at
                                      > scan_history[t].performed_at})
NewerOrSame(t) ==
    Cardinality({x \in Matching : scan_history[x].performed_at
                                      >= scan_history[t].performed_at})

\* the number of rows left for page p of size n out of total rows
RowsOnPage(total, p, n) ==
    IF total - (p - 1) * n <= 0 THEN 0
    ELSE IF total - (p - 1) * n >= n THEN n
    ELSE total - (p - 1) * n

\* C25: list-history returns only rows of the account that match the
\* status filter, newest first; page p of size n (1 <= n <= 100) holds
\* exactly the rows at positions (p-1)*n+1 .. p*n of that order, total is
\* the number of matching rows and pages is ceil(total/n), 0 for no rows.
C25_ListIsThePageOfTheOrder ==
    /\ [](lreq.op = "list" /\ lreq.status_code = 200 =>
            lreq.page >= 1 /\ lreq.limit >= 1 /\ lreq.limit <= MaxLimit)
    /\ [][lreq.pc = "count" /\ lreq'.pc = "page" =>
            lreq'.total = Cardinality(Matching)]_vars
    /\ [][lreq.pc = "page" /\ lreq'.pc = "done" =>
            LET scans == lreq'.scans
                p == lreq.page
                n == lreq.limit
            IN /\ \A i \in DOMAIN scans : scans[i] \in Matching
               /\ \A i, j \in DOMAIN scans : i # j => scans[i] # scans[j]
               /\ Len(scans) = RowsOnPage(Cardinality(Matching), p, n)
               /\ \A i \in DOMAIN scans :
                    /\ Newer(scans[i]) < (p - 1) * n + i
                    /\ (p - 1) * n + i <= NewerOrSame(scans[i])
               /\ IF lreq.total = 0 THEN lreq'.pages = 0
                  ELSE /\ lreq'.pages * n >= lreq.total
                       /\ (lreq'.pages - 1) * n < lreq.total]_vars

\* the second page of size 1 of an account's SUCCESS rows has been
\* answered: two rows match, the table holds a row of another account
C25_Witness ==
    /\ lreq.pc = "done" /\ lreq.op = "list" /\ lreq.status_code = 200
    /\ lreq.page = 2 /\ lreq.limit = 1 /\ lreq.status_filter = "SUCCESS"
    /\ lreq.total = 2 /\ lreq.pages = 2 /\ Len(lreq.scans) = 1
    /\ \E t \in DOMAIN scan_history :
         /\ scan_history[t] # NoRecord
         /\ scan_history[t].user_id # lreq.user_id
         /\ scan_history[t].status = "SUCCESS"

\* the rows of the account of the request
Mine ==
    {t \in DOMAIN scan_history :
        scan_history[t] # NoRecord /\ scan_history[t].user_id = lreq.user_id}

RECURSIVE CreditsUpTo(_)
\* credits_charged of the account's rows with ids 1 .. n, added up
CreditsUpTo(n) ==
    IF n = 0 THEN 0
    ELSE CreditsUpTo(n - 1) +
         (IF n \in Mine THEN scan_history[n].credits_charged ELSE 0)

\* C26: in the statistics of an account each per-status count is the
\* number of the account's rows in that status, total_scans is the sum of
\* the counts, and total_credits_spent is the sum of credits_charged over
\* the account's rows; rows of other accounts do not contribute.
C26_StatisticsCountOwnRows ==
    /\ [][lreq.pc = "counts" /\ lreq'.pc = "credits" =>
            /\ \A st \in DOMAIN lreq'.counts :
                 lreq'.counts[st] =
                     Cardinality({t \in Mine : scan_history[t].status = st})
            /\ \A t \in Mine : scan_history[t].status \in DOMAIN lreq'.counts]_vars
    /\ [][lreq.pc = "credits" /\ lreq'.pc = "done" =>
            /\ \A st \in ScanStatus :
                 lreq'.counts[st] =
                     IF st \in DOMAIN lreq.counts THEN lreq.counts[st] ELSE 0
            /\ lreq'.total_scans = Cardinality(Mine)
            /\ lreq'.total_credits_spent = CreditsUpTo(MaxRows)]_vars

\* statistics answered for an account with a SUCCESS and a PENDING row
\* while the third row belongs to another account
C26_Witness ==
    /\ lreq.pc = "done" /\ lreq.op = "stats" /\ lreq.status_code = 200
    /\ lreq.counts["SUCCESS"] = 1 /\ lreq.counts["PENDING"] = 1
    /\ lreq.counts["FAILED"] = 0
    /\ lreq.total_scans = 2
    /\ lreq.total_credits_spent = 2 * CreditsCharged
    /\ \E t \in DOMAIN scan_history :
         scan_history[t] # NoRecord /\ scan_history[t].user_id # lreq.user_id

(***************************************************************************)
(* Properties of the order of a submission (SpecExec)                      *)
(***************************************************************************)
\* C27: in a submission the PENDING record is persisted before the task is
\* enqueued, so no task sent by POST /scan is in the queue or with a worker
\* before its record exists.
C27_RecordBeforeEnqueue ==
    \A t \in DOMAIN req :
        MessagesOf(t) # {} => scan_history[t] # NoRecord

(***************************************************************************)
(* Properties of the row lock (SpecLock, SpecLedger)                       *)
(***************************************************************************)
\* the reservations between their locked read and their commit or rollback
InCriticalSection(u) ==
    {r \in DOMAIN req : req[r].pc = "locked" /\ req[r].user_id = u}

\* C28: for each account at most one reservation at a time is between its
\* locked read and its commit or rollback; the row lock is held by nobody
\* else, so it is released on every exit path; and a reservation waiting
\* for the lock does not wait forever.
C28_LockExclusiveAndReleased ==
    /\ [](\A u \in UserIds : Cardinality(InCriticalSection(u)) <= 1)
    /\ [](\A u \in UserIds :
            rowLock[u] # NoReq => rowLock[u] \in InCriticalSection(u))
    /\ \A r \in 1 .. MaxReqs :
         (req[r].pc = "dependency") ~> (req[r].pc # "dependency")

\* one reservation of account 1 holds the row lock while another one waits
\* for it, after a third one left through the rollback of a failed commit
C28_Witness ==
    \E r1, r2, r3 \in DOMAIN req :
        /\ req[r1].pc = "locked" /\ req[r1].user_id = 1 /\ rowLock[1] = r1
        /\ req[r2].pc = "dependency" /\ req[r2].user_id = 1
        /\ req[r3].pc = "rejected" /\ req[r3].status_code = 500
        /\ req[r3].user_id = 1

\* C29: the balance reported to a granted submission (balance_after of the
\* reservation, credits_remaining of the response) is the balance the
\* reservation read under the lock minus its own cost.
C29_ReportedBalanceIsOwn ==
    \A r \in DOMAIN req :
        /\ req[r].balance_after # NoInt =>
               req[r].balance_after = req[r].observed - ScanCost
        /\ req[r].pc = "returned" =>
               req[r].credits_remaining = req[r].observed - ScanCost

(***************************************************************************)
(* Properties of the listeners of a task (SpecGateway)                     *)
(***************************************************************************)
\* the listeners of the task that hold a subscription and forward from it:
\* past subscribe, not cancelled, not yet in their finally block
Forwarding(task_id) ==
    {l \in ListenerIds :
        /\ listeners[l].task_id = task_id
        /\ listeners[l].subscribed
        /\ ~listeners[l].cancelled
        /\ listeners[l].pc \in {"listen", "broadcast"}}

\* the listeners of the task that connect counts as running: created, not
\* cancelled, not done
Running(task_id) ==
    {l \in ListenerIds :
        /\ listeners[l].task_id = task_id
        /\ ~listeners[l].cancelled
        /\ listeners[l].pc \notin {"unused", "done"}}

\* C30: for each task at most one listener is subscribed and forwarding at
\* any time, however connects and disconnects interleave, and a connect
\* starts a listener only when none is running for the task.
C30_OneListenerPerTask ==
    /\ [](\A t \in TaskIds : Cardinality(Forwarding(t)) <= 1)
    /\ [][\A l \in ListenerIds :
            (listeners[l].pc = "unused" /\ listeners'[l].pc = "created") =>
                Running(listeners'[l].task_id) = {}]_vars

\* a second listener forwards for the task while the first one, cancelled
\* by the disconnect of the only viewer then, still holds its subscription
C30_Witness ==
    \E l, k \in ListenerIds : \E t \in TaskIds :
        /\ l # k
        /\ listeners[k].task_id = t
        /\ listeners[k].cancelled /\ listeners[k].subscribed
        /\ Forwarding(t) = {l}
        /\ listeners[l].pc = "broadcast"
        /\ RegisteredViewers(t) # {}

(***************************************************************************)
(* Properties of a run of the task (SpecExec)                              *)
(***************************************************************************)
\* worker w is past the start of perform_osint_scan and before the
\* terminal update of the scan record
Started(w) ==
    exec[w].pc \in {"resolve", "collect", "on_success", "on_success_update",
                    "on_failure", "on_failure_update"}

\* C31: after an executor has started a task and until its terminal
\* transition, the task's scan record has the status PROCESSING, and the
\* started event was published before the routine is invoked.
C31_ProcessingWhileRunning ==
    \A w \in Workers :
        LET t == exec[w].msg.task_id
        IN (Started(w) /\ scan_history[t] # NoRecord) =>
               /\ scan_history[t].status = "PROCESSING"
               /\ redis_up => \E i \in DOMAIN published[t] :
                                  published[t][i].type = "task_started"

\* every message of the task, queued or with a worker
AllMessages == BagToSet(broker) \cup BagToSet(unacked)

\* C32: every dequeued task terminates: it is executed at most
\* 1 + max_retries times, and once nothing of it is left to run its scan
\* record holds a terminal status.
C32_EveryTaskEndsRecorded ==
    /\ \A m \in AllMessages : m.retries <= max_retries
    /\ Quiescent =>
         \A t \in DOMAIN req :
             (ApiSubmitted(t) /\ scan_history[t] # NoRecord) =>
                 scan_history[t].status \in TerminalStatus

\* C33: every RETRY event published for a task, carrying retry count k,
\* is followed by a further attempt of the task (the one with retries
\* k + 1): once nothing is left to run, that attempt has taken place.
C33_RetryEventThenAttempt ==
    Quiescent =>
        \A t \in TaskIds : \A i \in DOMAIN published[t] :
            published[t][i].type = "task_retry" =>
                /\ published[t][i].retry_count + 1 \in DOMAIN attempts[t]
                /\ attempts[t][published[t][i].retry_count + 1] # {}

\* the fields of a scan record that are fixed at creation
FixedFields(row) ==
    [id |-> row.id, user_id |-> row.user_id, target |-> row.target,
     scan_type |-> row.scan_type, task_id |-> row.task_id,
     credits_charged |-> row.credits_charged, client_ip |-> row.client_ip,
     user_agent |-> row.user_agent, performed_at |-> row.performed_at]

\* C34: the executor's terminal update changes only status, completed_at,
\* result_snapshot and error_message of a scan record; its id, owning
\* account, target, routine name, task id, credits_charged, client address,
\* user agent and creation time never change after its creation.
C34_UpdateKeepsFixedFields ==
    [][\A t \in DOMAIN scan_history :
          scan_history[t] # NoRecord =>
              /\ scan_history'[t] # NoRecord
              /\ FixedFields(scan_history'[t]) = FixedFields(scan_history[t])]_vars

\* a record written by on_success after a retry: status, completion time
\* and result are set, the fields of its creation are the created ones
C34_Witness ==
    \E t \in DOMAIN req :
        /\ scan_history[t] # NoRecord
        /\ scan_history[t].status = "SUCCESS"
        /\ scan_history[t].completed_at > scan_history[t].performed_at
        /\ scan_history[t].result_snapshot # NoResult
        /\ FixedFields(scan_history[t]) =
               FixedFields(create_scan_log(req[t].user_id, req[t].type, t,
                                           scan_history[t].performed_at))
        /\ attempts[t][1] # {}

\* C35: at most one event with status SUCCESS or FAILURE is published on
\* a task's channel over the whole execution of the task.
C35_OneTerminalEvent ==
    \A t \in TaskIds : Cardinality(TerminalEvents(t)) <= 1

\* C36: when the terminal event of a task (task_complete, task_failed of
\* on_success / on_failure) is on the channel, the scan record of the task
\* already holds the terminal status.
C36_RecordBeforeTerminalEvent ==
    \A t \in TaskIds :
        (/\ scan_history[t] # NoRecord
         /\ \E i \in DOMAIN published[t] :
              published[t][i].type \in {"task_complete", "task_failed"}) =>
            scan_history[t].status \in TerminalStatus

(* Properties of the gateway's registries (SpecGateway) *)
\* C37: between operations of the gateway (connect, disconnect, broadcast,
\* listener exit) a task id is a key of active_connections iff it is a key
\* of listener_tasks, and every viewer set in active_connections is
\* non-empty.
C37_RegistriesInStep ==
    /\ DOMAIN active_connections = DOMAIN listener_tasks
    /\ \A t \in DOMAIN active_connections : active_connections[t] # {}

\* the listener of the task has exited after the terminal event while
\* viewers are still registered: both registries keep the task's key
C37_Witness ==
    \E t \in DOMAIN active_connections :
        /\ ListenerDone(listener_tasks[t])
        /\ active_connections[t] # {}
        /\ TerminalDelivered(t)
        /\ \E v \in Viewers : ws[v].pc = "closed"

\* the listeners of the task that are alive: started, not cancelled, not
\* yet in their finally block
Live(task_id) ==
    {l \in ListenerIds :
        /\ listeners[l].task_id = task_id
        /\ ~listeners[l].cancelled
        /\ listeners[l].pc \in {"created", "listen", "broadcast"}}

\* a terminal event of the task has been forwarded: a viewer has received
\* it, or a listener has broadcast it and left its loop
TerminalForwarded(task_id) ==
    \/ TerminalDelivered(task_id)
    \/ \E l \in ListenerIds :
          /\ listeners[l].task_id = task_id
          /\ listeners[l].pc \in {"broadcast", "closing", "done"}
          /\ listeners[l].message # 0
          /\ IsTerminal(published[task_id][listeners[l].message].status)

\* C38: whenever a task has a registered viewer and no terminal event has
\* been forwarded to its viewers, a live listener serves the task's
\* channel; a listener that exits for another reason (bus error, subscribe
\* failure) does not leave registered viewers without one.
C38_ViewersHaveListener ==
    \A t \in TaskIds :
        (RegisteredViewers(t) # {} /\ ~TerminalForwarded(t)) => Live(t) # {}

\* C39: disconnect is idempotent: called for a connection that is no
\* longer registered for the task (removed by a failed broadcast or by an
\* earlier disconnect) it changes nothing: no other viewer is removed and
\* the listener serving the viewers still registered is not cancelled; and
\* a second call after any disconnect changes nothing.
C39_DisconnectIdempotent ==
    \A v \in Viewers : \A t \in TaskIds :
        /\ v \notin RegisteredViewers(t) => disconnect(Manager, v, t) = Manager
        /\ disconnect(disconnect(Manager, v, t), v, t) = disconnect(Manager, v, t)

\* a failed broadcast has removed a viewer whose endpoint has not yet run
\* its final disconnect, while another viewer is registered for the task
\* and served by a listener
C39_Witness ==
    \E v, u \in Viewers :
        LET t == ws[v].task_id
        IN /\ ws[v].pc \in {"ack", "receive"}
           /\ ~ws[v].open
           /\ t \in TaskIds
           /\ v \notin RegisteredViewers(t)
           /\ u \in RegisteredViewers(t)
           /\ Live(t) # {}

(* Properties of the ledger under failures of the handler (SpecOutage) *)
\* no request is between its admission and its response
NoSubmissionInFlight ==
    \A r \in DOMAIN req : req[r].pc \in {"idle", "rejected", "returned", "failed"}

\* the scan records of an account
RecordsOf(u) ==
    {t \in DOMAIN scan_history :
        scan_history[t] # NoRecord /\ scan_history[t].user_id = u}

\* C40: whenever no submission is in flight (and no record was deleted),
\* each account's deducted credits (initial balance minus current balance)
\* equal the sum of credits_charged over its scan records, and every
\* granted reservation has its scan record and its enqueued task, also
\* when enqueueing or persisting the record fails after the charge.
C40_ChargesMatchRecords ==
    NoSubmissionInFlight =>
        \A u \in DOMAIN users :
            /\ opening_balance[u] - users[u].credits_balance =
                   SumCredits(RecordsOf(u))
            /\ \A r \in Granted(u) :
                   /\ scan_history[r] # NoRecord
                   /\ MessagesOf(r) # {}

====
